---- MODULE Spec2Model ----
(***************************************************************************)
(* Model of src/bot.py: the guild_configs table with its get-or-create and *)
(* update operations, the settings modal, and the Bluesky feed poll cycle  *)
(* (check_bluesky_feed) that relays posts into each enabled guild.         *)
(***************************************************************************)
EXTENDS Integers, Sequences, FiniteSets, TLC

\* ------------------------------------------------------------------ bounds
MaxGuilds == 2      \* guild ids 1..MaxGuilds
MaxItems  == 2      \* feed item uris 1..MaxItems
MaxTime   == 2      \* creation instants 1..MaxTime
MaxCycles == 2      \* poll cycles (timer fires) in a run
MaxTasks  == 2      \* command handlers running concurrently
MaxLen    == 4      \* characters typed into the modal's text input

Guilds == 1..MaxGuilds
Uris   == 1..MaxItems

\* ------------------------------------------------------------- timestamps
\* A created_at / last_bluesky_post string.  kind "none" is None or "",
\* "utc" is an ISO string of instant t, "bad" is a string fromisoformat
\* rejects.
NoTime   == [kind |-> "none", t |-> 0]
BadTime  == [kind |-> "bad", t |-> 0]
UtcTime(t) == [kind |-> "utc", t |-> t]
Stamps   == {NoTime, BadTime} \cup {UtcTime(t) : t \in 1..MaxTime}

\* "1970-01-01T00:00:00Z", the watermark of a guild that has none.
EpochTime == [kind |-> "utc", t |-> 0]

\* Python truthiness of an Optional[str]
Truthy(s) == s.kind # "none"

\* datetime.fromisoformat(s.replace('Z', '+00:00')): raises ValueError on a
\* malformed string, else the instant.
ParseFails(s) == s.kind # "utc"
ParseTime(s)  == s.t

\* ------------------------------------------------------------ credentials
\* BLUESKY_USERNAME and BLUESKY_APP_PASSWORD as os.environ.get returns them
\* ("" stands for None and for an empty value).
Credentials == [username : {"", "u"}, password : {"", "p"}]

\* No cycle has read the credentials since the last one passed its login.
NoAuth == [username |-> "", password |-> "", login |-> "none"]

\* ------------------------------------------------------------------ state
NoId == 0                       \* a NULL BigInteger column

VARIABLES
    db,          \* table guild_configs: sequence of rows in rowid order
    channels,    \* platform: the channels that exist, [id, guild, kind]
    feed,        \* the external timeline: uri -> created_at
    pc,          \* position of the poll cycle
    configs,     \* the cycle's ORM instances (rows read by the select)
    expired,     \* the session's instances are expired (after commit/rollback)
    posts,       \* feed_response.feed of the running cycle
    ci,          \* index into configs of the guild being served
    pi,          \* index into posts of the item being examined
    last_post_dt,\* the watermark parsed at the start of the pass
    sentCount,   \* history: guild -> uri -> successful sends, capped at 2
    passSent,    \* history: uris sent in the current pass, in send order
    passFailed,  \* history: uris whose send raised in the current pass
    passGuild,   \* history: guild of the current/last pass (0: none yet)
    passStart,   \* history: the guild's stored watermark when the pass began
    cycle,       \* history: number of cycles started
    lastEnd,     \* history: how the latest cycle ended
    sendFail,    \* history: a send raised in the current cycle
    commitFail,  \* history: a commit raised in the current cycle
    prevClean,   \* history: no setting was written since the latest fetch
                 \*   and, when idle, that cycle completed without a failure
    repeat,      \* history: this cycle re-runs the previous one unchanged
    auth,        \* the credentials the cycle read and how its login went
    limit,       \* history: the limit of the running cycle's feed request
    tasks,       \* command handlers in flight, each inside a store call
    modal,       \* the SettingsModal of the settings menu, and its response
    provs,       \* signup / help handlers in flight
    created,     \* platform: the channels create_text_channel made, in order
    seeds,       \* platform: the messages sent into created channels, in order
    cooldown,    \* the (command, user) pairs whose cooldown has not run out
    readies,     \* on_ready handlers in flight
    loopTasks,   \* the asyncio tasks bluesky_feed_task.start() made, in order
    active,      \* number of check_bluesky_feed calls that have not returned
    views,       \* the BlueskyToggleViews sent to admins, in order
    presses,     \* BlueskyToggleButton callbacks in flight
    named,       \* platform: the text channels that exist, with their names
    cleans       \* cleanup handlers in flight

vars == <<db, tasks, modal, channels, feed, pc, configs, expired, posts, ci, pi,
          last_post_dt, sentCount, passSent, passFailed, passGuild,
          passStart, cycle, lastEnd, sendFail, commitFail, prevClean,
          repeat, auth, limit, provs, created, seeds, cooldown, readies, loopTasks,
          active, views, presses, named, cleans>>

\* The variables of the provisioning commands.
provVars == <<provs, created, seeds, cooldown>>

\* The variables no step of the store calls, the settings modal or the poll
\* cycle reads or writes.
aside == <<provVars, readies, loopTasks, active, views, presses, named,
           cleans>>

cycleVars == <<pc, configs, expired, posts, ci, pi, last_post_dt>>
passVars  == <<passSent, passFailed, passGuild, passStart>>
flagVars  == <<cycle, lastEnd, sendFail, commitFail, prevClean, repeat,
               auth, limit>>
histVars  == <<sentCount, passSent, passFailed, passGuild, passStart,
               cycle, lastEnd, sendFail, commitFail, prevClean, repeat,
               auth, limit>>

\* ------------------------------------------------------------ GuildConfig
\* class GuildConfig: one row; id is the position in db.
GuildConfig(guild_id) ==
    [guild_id                  |-> guild_id,
     private_channels_category |-> NoId,
     admin_usernames           |-> <<>>,
     bluesky_enabled           |-> 0,
     bluesky_channel_id        |-> NoId,
     last_bluesky_post         |-> NoTime]

\* select(GuildConfig).where(GuildConfig.guild_id == guild_id): row ids
RowsOf(guild_id) == {i \in DOMAIN db : db[i].guild_id = guild_id}

\* The row of a guild that has exactly one.
RowOf(guild_id) == CHOOSE i \in RowsOf(guild_id) : TRUE

\* Platform ids: guild g owns text channel g and category 10 + g.
TextChannelOf(g) == g
CategoryOf(g)    == 10 + g
InitChannels ==
    {[id |-> TextChannelOf(g), guild |-> g, kind |-> "text"] : g \in Guilds}
    \cup {[id |-> CategoryOf(g), guild |-> g, kind |-> "category"] : g \in Guilds}

\* Mutant of ChannelFound: the `if not channel` test is lost.
ChannelFound_Always(id) == TRUE

\* bot.get_channel(id) is not None
ChannelFound(id) == \E c \in channels : c.id = id

\* --------------------------------------------------------- update (commit)
\* Mutant of SetField: the last branch of the chain is an else.
SetField_Else(row, setting, value) ==
    CASE setting = "PRIVATE_CHANNELS_CATEGORY" ->
             [row EXCEPT !.private_channels_category = value]
      [] setting = "ADMIN_USERNAMES" -> [row EXCEPT !.admin_usernames = value]
      [] setting = "BLUESKY_ENABLED" -> [row EXCEPT !.bluesky_enabled = value]
      [] OTHER -> [row EXCEPT !.bluesky_channel_id = value]

\* update_guild_config, the assignment chain: the column `setting` names
\* takes `value`; an unknown setting assigns nothing.
SetField(row, setting, value) ==
    CASE setting = "PRIVATE_CHANNELS_CATEGORY" ->
             [row EXCEPT !.private_channels_category = value]
      [] setting = "ADMIN_USERNAMES" -> [row EXCEPT !.admin_usernames = value]
      [] setting = "BLUESKY_ENABLED" -> [row EXCEPT !.bluesky_enabled = value]
      [] setting = "BLUESKY_CHANNEL" -> [row EXCEPT !.bluesky_channel_id = value]
      [] OTHER -> row

\* ---------------------------------------------------------------- strings
\* A str is a sequence of characters.
Chars == {"a", "A", "b", "#", "1", "2", ",", " "}

\* The texts a user can type into the TextInput (min_length=1).
Texts == UNION {[1..n -> Chars] : n \in 1..MaxLen}

\* str.lower()
LowerChar(c) == IF c = "A" THEN "a" ELSE c
Lower(str) == [i \in DOMAIN str |-> LowerChar(str[i])]

\* str.strip()
RECURSIVE LStrip(_)
LStrip(str) ==
    IF str # <<>> /\ Head(str) = " " THEN LStrip(Tail(str)) ELSE str
RECURSIVE RStrip(_)
RStrip(str) ==
    IF str # <<>> /\ str[Len(str)] = " "
    THEN RStrip(SubSeq(str, 1, Len(str) - 1)) ELSE str
Strip(str) == RStrip(LStrip(str))

\* str.split(','): the pieces between the commas, at least one.
RECURSIVE SplitFrom(_, _)
SplitFrom(str, piece) ==
    IF str = <<>> THEN <<piece>>
    ELSE IF Head(str) = "," THEN <<piece>> \o SplitFrom(Tail(str), <<>>)
    ELSE SplitFrom(Tail(str), Append(piece, Head(str)))
Split(str) == SplitFrom(str, <<>>)

\* ','.join(strs)
RECURSIVE Join(_)
Join(strs) ==
    IF strs = <<>> THEN <<>>
    ELSE IF Len(strs) = 1 THEN strs[1]
    ELSE strs[1] \o <<",">> \o Join(Tail(strs))

\* '#' in username
HasHash(str) == \E i \in DOMAIN str : str[i] = "#"

\* username.rsplit('#', 1) of a username that holds a '#'
LastHash(str) == CHOOSE i \in DOMAIN str :
    str[i] = "#" /\ \A j \in DOMAIN str : j > i => str[j] # "#"
RSplitName(str) == SubSeq(str, 1, LastHash(str) - 1)
RSplitDiscriminator(str) == SubSeq(str, LastHash(str) + 1, Len(str))

\* guild.members: name and str(discriminator) of the members of a guild
\* ("0" is the discriminator of an account of the new username system).
Members(g) ==
    {[id |-> 1, name |-> <<"A">>, discriminator |-> <<"1">>],
     [id |-> 2, name |-> <<"b">>, discriminator |-> <<"0">>]}

\* No modal is open.
NoModal ==
    [pc |-> "none", guild_id |-> 0, setting |-> "none", text |-> <<>>,
     response |-> "none", invalid_usernames |-> <<>>]

\* A signup / help handler slot with no invocation in it.
IdleProv ==
    [pc |-> "idle", guild_id |-> 0, user |-> 0, suffix |-> <<>>,
     config |-> [id |-> 0, row |-> GuildConfig(0)], mentions |-> <<>>,
     category |-> NoId, channel |-> 0, response |-> "none",
     creates |-> 0, sends |-> 0]

\* A button callback slot with no press in it.
IdlePress ==
    [pc |-> "idle", view |-> 0, new_state |-> FALSE,
     config |-> [id |-> 0, row |-> GuildConfig(0)], before |-> 0]

\* A cleanup handler slot with no invocation in it.
IdleClean ==
    [pc |-> "idle", channel |-> 0, name |-> <<>>, user |-> 0,
     response |-> "none"]

\* The bot has just started: no command was invoked, no channel made.
AsideInit ==
    /\ named = {}
    /\ cleans = [r \in 1..MaxTasks |-> IdleClean]
    /\ views = <<>>
    /\ presses = [p \in 1..MaxTasks |-> IdlePress]
    /\ provs = [r \in 1..MaxTasks |-> IdleProv]
    /\ created = <<>>
    /\ seeds = <<>>
    /\ cooldown = {}
    /\ readies = [h \in 1..MaxTasks |-> "idle"]
    /\ loopTasks = <<>>
    /\ active = 0

\* ------------------------------------------------------------ store calls
Tasks == 1..MaxTasks

\* No instance: scalar_one_or_none() returned None.
NoConfig == [id |-> 0, row |-> GuildConfig(0)]

\* A handler that is not inside a store call.
IdleTask ==
    [pc |-> "idle", op |-> "none", guild_id |-> 0, setting |-> "none",
     value |-> 0, config |-> NoConfig]

\* result.scalar_one_or_none() of the select by guild_id
SelectConfig(guild_id) ==
    IF RowsOf(guild_id) = {} THEN NoConfig
    ELSE [id |-> RowOf(guild_id), row |-> db[RowOf(guild_id)]]

\* Mutant of UniqueViolation: the guild_id column without unique=True.
UniqueViolation_Off(guild_id) == FALSE

\* guild_id = Column(BigInteger, unique=True): the INSERT of a second row
\* with the same guild_id raises IntegrityError.
UniqueViolation(guild_id) == RowsOf(guild_id) # {}

\* The (setting, value) pairs the settings views submit for a guild.
SettingValues(g) ==
    {<<"PRIVATE_CHANNELS_CATEGORY", CategoryOf(g)>>,
     <<"BLUESKY_CHANNEL", TextChannelOf(g)>>,
     <<"BLUESKY_ENABLED", 0>>,
     <<"BLUESKY_ENABLED", 1>>}

storeFrame == <<modal, aside, channels, feed, pc, configs, expired, posts, ci, pi,
                last_post_dt, sentCount, passSent, passFailed, passGuild,
                passStart, cycle, lastEnd, sendFail, commitFail, prevClean,
                repeat, auth,
                limit>>

\* The select of a get-or-create (get_guild_config, /settings) has run.
CallGet(t, op, g) ==
    /\ tasks[t].pc = "idle"
    /\ tasks' = [tasks EXCEPT ![t] =
                    [pc |-> "selected", op |-> op, guild_id |-> g,
                     setting |-> "none", value |-> 0,
                     config |-> SelectConfig(g)]]
    /\ UNCHANGED <<db, storeFrame>>

\* get_guild_config, up to its select
GetGuildConfigSelect ==
    \E t \in Tasks, g \in Guilds :
        /\ tasks[t].op = "none"
        /\ CallGet(t, "get_guild_config", g)

\* the /settings command, up to its select
SettingsSelect ==
    \E t \in Tasks, g \in Guilds :
        /\ tasks[t].op = "none"
        /\ CallGet(t, "settings", g)

\* update_guild_config: the select has run.
UpdateGuildConfigSelect ==
    \E t \in Tasks, g \in Guilds :
        \E sv \in SettingValues(g) :
            /\ tasks[t].pc = "idle"
            /\ tasks' = [tasks EXCEPT ![t] =
                            [pc |-> "selected", op |-> "update_guild_config",
                             guild_id |-> g, setting |-> sv[1],
                             value |-> sv[2], config |-> SelectConfig(g)]]
            /\ UNCHANGED <<db, storeFrame>>

\* `if not config` is false in get_guild_config / settings: no write, return.
ReturnExisting ==
    \E t \in Tasks :
        /\ tasks[t].pc = "selected"
        /\ tasks[t].op \in {"get_guild_config", "settings"}
        /\ tasks[t].config # NoConfig
        /\ tasks' = [tasks EXCEPT ![t].pc = "returned"]
        /\ UNCHANGED <<db, storeFrame>>

\* The row a call adds when its select found none.
NewRow(task) ==
    IF task.op = "update_guild_config"
    THEN SetField(GuildConfig(task.guild_id), task.setting, task.value)
    ELSE GuildConfig(task.guild_id)

\* session.add(config); await session.commit(): the INSERT goes through.
InsertCommit ==
    \E t \in Tasks :
        /\ tasks[t].pc = "selected"
        /\ tasks[t].config = NoConfig
        /\ ~UniqueViolation(tasks[t].guild_id)
        /\ db' = Append(db, NewRow(tasks[t]))
        /\ tasks' = [tasks EXCEPT ![t].pc = "returned",
                                  ![t].config = [id |-> Len(db) + 1,
                                                 row |-> NewRow(tasks[t])]]
        /\ UNCHANGED storeFrame

\* session.add(config); await session.commit(): another call inserted the
\* guild's row since this call's select, the INSERT raises.
InsertRaises ==
    \E t \in Tasks :
        /\ tasks[t].pc = "selected"
        /\ tasks[t].config = NoConfig
        /\ UniqueViolation(tasks[t].guild_id)
        /\ tasks' = [tasks EXCEPT ![t].pc = "raised"]
        /\ UNCHANGED <<db, storeFrame>>

\* The flush of an instance loaded by the select: an UPDATE of the column
\* whose assigned value differs from the loaded one, by primary key.
FlushUpdate(task) ==
    IF SetField(task.config.row, task.setting, task.value) = task.config.row
    THEN db
    ELSE [db EXCEPT ![task.config.id] = SetField(@, task.setting, task.value)]

\* update_guild_config on an existing row: assignment and commit.
UpdateCommit ==
    \E t \in Tasks :
        /\ tasks[t].pc = "selected"
        /\ tasks[t].op = "update_guild_config"
        /\ tasks[t].config # NoConfig
        /\ db' = FlushUpdate(tasks[t])
        /\ tasks' = [tasks EXCEPT ![t].pc = "returned"]
        /\ UNCHANGED storeFrame

\* The handler is over (its result used, or its exception reported).
TaskEnds ==
    \E t \in Tasks :
        /\ tasks[t].pc \in {"returned", "raised"}
        /\ tasks' = [tasks EXCEPT ![t] = IdleTask]
        /\ UNCHANGED <<db, storeFrame>>

\* init_db on a fresh bot.db: the table is empty, nothing is in flight.
InitStore ==
    /\ db = <<>>
    /\ AsideInit
    /\ tasks = [t \in Tasks |-> IdleTask]
    /\ modal = NoModal
    /\ channels = InitChannels
    /\ feed = [u \in Uris |-> NoTime]
    /\ pc = "idle"
    /\ configs = <<>>
    /\ expired = FALSE
    /\ posts = <<>>
    /\ ci = 1
    /\ pi = 1
    /\ last_post_dt = 0
    /\ sentCount = [g \in Guilds |-> [u \in Uris |-> 0]]
    /\ passSent = <<>>
    /\ passFailed = {}
    /\ passGuild = 0
    /\ passStart = NoTime
    /\ cycle = 0
    /\ lastEnd = "none"
    /\ sendFail = FALSE
    /\ commitFail = FALSE
    /\ prevClean = FALSE
    /\ repeat = FALSE
    /\ auth = NoAuth
    /\ limit = 0

NextStore ==
    \/ GetGuildConfigSelect
    \/ SettingsSelect
    \/ UpdateGuildConfigSelect
    \/ ReturnExisting
    \/ InsertCommit
    \/ InsertRaises
    \/ UpdateCommit
    \/ TaskEnds

SpecStore == InitStore /\ [][NextStore]_vars

\* --------------------------------------------------------- settings modal
\* int(value): the decimal strings (ValueError otherwise)
IsInt(str) ==
    str # <<>> /\ \A i \in DOMAIN str : str[i] \in {"0", "1", "2"}
DigitOf(c) == IF c = "0" THEN 0 ELSE IF c = "1" THEN 1 ELSE 2
RECURSIVE IntOf(_)
IntOf(str) ==
    IF str = <<>> THEN 0
    ELSE 10 * IntOf(SubSeq(str, 1, Len(str) - 1)) + DigitOf(str[Len(str)])

\* Mutant of GuildChannelIs: the isinstance test of the lookup is lost.
GuildChannelIs_AnyKind(g, id, kind) ==
    \E c \in channels : c.id = id /\ c.guild = g

\* interaction.guild.get_channel(id) is a channel of that kind
GuildChannelIs(g, id, kind) ==
    \E c \in channels : c.id = id /\ c.guild = g /\ c.kind = kind

\* [u.strip() for u in value.split(',')]
StripAll(strs) == [i \in DOMAIN strs |-> Strip(strs[i])]
Usernames(value) == StripAll(Split(value))

\* The member lookup of on_submit for one username: `found`.
UsernameFound(g, username) ==
    IF HasHash(username)
    THEN \E m \in Members(g) :
            /\ Lower(m.name) = Lower(RSplitName(username))
            /\ m.discriminator = RSplitDiscriminator(username)
    ELSE \E m \in Members(g) : Lower(m.name) = Lower(username)

\* valid_users and invalid_usernames after the loop
ValidUsers(g, usernames) ==
    SelectSeq(usernames, LAMBDA u : UsernameFound(g, u))
InvalidUsernames(g, usernames) ==
    SelectSeq(usernames, LAMBDA u : ~UsernameFound(g, u))

\* Mutant of RejectsSubmission: the `return` after the error message is lost.
RejectsSubmission_Never(invalid_usernames) == FALSE

\* `if invalid_usernames:` respond and return
RejectsSubmission(invalid_usernames) == invalid_usernames # <<>>

\* update_guild_config(guild_id, setting, value) run to its commit: the row is
\* updated, or inserted when the guild has none.
Upsert(g, setting, value) ==
    IF RowsOf(g) = {}
    THEN Append(db, SetField(GuildConfig(g), setting, value))
    ELSE [db EXCEPT ![RowOf(g)] = SetField(@, setting, value)]

\* The current value shown as the input's default.
CurrentValue(g, setting) ==
    IF setting = "ADMIN_USERNAMES" /\ RowsOf(g) # {}
    THEN db[RowOf(g)].admin_usernames ELSE <<>>

settingsFrame == <<tasks, aside, channels, feed, pc, configs, expired, posts, ci,
                   pi, last_post_dt, sentCount, passSent, passFailed,
                   passGuild, passStart, cycle, lastEnd, sendFail,
                   commitFail, prevClean, repeat, auth,
                limit>>

\* SettingsSelect.callback for a setting edited through the modal.
OpenModal ==
    \E g \in Guilds,
       setting \in {"PRIVATE_CHANNELS_CATEGORY", "ADMIN_USERNAMES",
                    "BLUESKY_CHANNEL"} :
        /\ modal.pc = "none"
        /\ RowsOf(g) # {}
        /\ modal' = [pc |-> "open", guild_id |-> g, setting |-> setting,
                     text |-> CurrentValue(g, setting), response |-> "none",
                     invalid_usernames |-> <<>>]
        /\ UNCHANGED <<db, settingsFrame>>

\* The response and the table after on_submit of `text`.
Respond(text, response, invalid_usernames) ==
    modal' = [modal EXCEPT !.pc = "submitted", !.text = text,
                           !.response = response,
                           !.invalid_usernames = invalid_usernames]

SubmitCategory(g, text, value) ==
    IF ~IsInt(value)
    THEN Respond(text, "invalid_value_format", <<>>) /\ UNCHANGED db
    ELSE IF ~GuildChannelIs(g, IntOf(value), "category")
    THEN Respond(text, "invalid_category", <<>>) /\ UNCHANGED db
    ELSE /\ db' = Upsert(g, "PRIVATE_CHANNELS_CATEGORY", IntOf(value))
         /\ Respond(text, "updated", <<>>)

SubmitChannel(g, text, value) ==
    IF ~IsInt(value)
    THEN Respond(text, "invalid_value_format", <<>>) /\ UNCHANGED db
    ELSE IF ~GuildChannelIs(g, IntOf(value), "text")
    THEN Respond(text, "invalid_channel", <<>>) /\ UNCHANGED db
    ELSE /\ db' = Upsert(g, "BLUESKY_CHANNEL", IntOf(value))
         /\ Respond(text, "updated", <<>>)

SubmitUsernames(g, text, value) ==
    IF RejectsSubmission(InvalidUsernames(g, Usernames(value)))
    THEN /\ Respond(text, "invalid_usernames",
                    InvalidUsernames(g, Usernames(value)))
         /\ UNCHANGED db
    ELSE /\ db' = Upsert(g, "ADMIN_USERNAMES",
                         Join(ValidUsers(g, Usernames(value))))
         /\ Respond(text, "updated", <<>>)

\* SettingsModal.on_submit
OnSubmit ==
    /\ modal.pc = "open"
    /\ \E text \in Texts :
        CASE modal.setting = "PRIVATE_CHANNELS_CATEGORY" ->
                    SubmitCategory(modal.guild_id, text, Strip(text))
             [] modal.setting = "BLUESKY_CHANNEL" ->
                    SubmitChannel(modal.guild_id, text, Strip(text))
             [] OTHER -> SubmitUsernames(modal.guild_id, text, Strip(text))
    /\ UNCHANGED settingsFrame

\* bot.db when an administrator opens the settings menu: every guild has its
\* row, with no admins stored yet or with a member stored by an earlier edit.
SettingsTables ==
    {t \in [Guilds -> {GuildConfig(g) : g \in Guilds}
                      \cup {[GuildConfig(g) EXCEPT !.admin_usernames = <<"b">>] :
                               g \in Guilds}] :
        \A g \in Guilds : t[g].guild_id = g}

InitSettings ==
    /\ db \in SettingsTables
    /\ AsideInit
    /\ modal = NoModal
    /\ tasks = [t \in Tasks |-> IdleTask]
    /\ channels = InitChannels
    /\ feed = [u \in Uris |-> NoTime]
    /\ pc = "idle"
    /\ configs = <<>>
    /\ expired = FALSE
    /\ posts = <<>>
    /\ ci = 1
    /\ pi = 1
    /\ last_post_dt = 0
    /\ sentCount = [g \in Guilds |-> [u \in Uris |-> 0]]
    /\ passSent = <<>>
    /\ passFailed = {}
    /\ passGuild = 0
    /\ passStart = NoTime
    /\ cycle = 0
    /\ lastEnd = "none"
    /\ sendFail = FALSE
    /\ commitFail = FALSE
    /\ prevClean = FALSE
    /\ repeat = FALSE
    /\ auth = NoAuth
    /\ limit = 0

NextSettings ==
    \/ OpenModal
    \/ OnSubmit

SpecSettings == InitSettings /\ [][NextSettings]_vars

\* ------------------------------------------------------------- poll cycle
PageSmall == 1
PageLarge == 10

\* limit of the get_author_feed request
PageLimit(cfgs) ==
    IF ~Truthy(cfgs[1].row.last_bluesky_post) THEN PageSmall ELSE PageLarge

Min(a, b) == IF a < b THEN a ELSE b

\* The feed responses of at most n items: sequences of distinct uris.
FeedPages(n) ==
    {s \in UNION {[1..k -> Uris] : k \in 0..Min(n, MaxItems)} :
        \A i, j \in DOMAIN s : i # j => s[i] # s[j]}

\* select(GuildConfig).where(GuildConfig.bluesky_enabled == 1), as instances
RECURSIVE EnabledFrom(_)
EnabledFrom(i) ==
    IF i > Len(db) THEN <<>>
    ELSE (IF db[i].bluesky_enabled = 1
          THEN <<[id |-> i, row |-> db[i]]>> ELSE <<>>) \o EnabledFrom(i + 1)

\* Mutant of EnabledConfigs: the select without its where clause.
EnabledConfigs_NoFilter == [i \in DOMAIN db |-> [id |-> i, row |-> db[i]]]

EnabledConfigs == EnabledFrom(1)

\* post.post.record.created_at
CreatedAt(uri) == feed[uri]

\* check_bluesky_feed returns: its locals and its session are gone.  The
\* page is kept (as history) while the next cycle can be a re-run of this one.
EndCycle(how) ==
    /\ pc' = "idle"
    /\ lastEnd' = how
    /\ prevClean' = (prevClean /\ how = "complete" /\ ~sendFail /\ ~commitFail)
    /\ posts' = IF prevClean' THEN posts ELSE <<>>
    /\ configs' = <<>>
    /\ expired' = FALSE
    /\ ci' = 1
    /\ pi' = 1
    /\ last_post_dt' = 0
    /\ passSent' = <<>>
    /\ passFailed' = {}
    /\ passGuild' = 0
    /\ passStart' = NoTime
    /\ sendFail' = FALSE
    /\ commitFail' = FALSE
    /\ repeat' = FALSE
    /\ limit' = 0
    /\ how # "login_failed" => auth' = NoAuth
    /\ UNCHANGED <<db, tasks, modal, aside, channels, feed, sentCount>>

\* Mutant of Configured: one of the two variables is enough to log in.
Configured_Either(c) == c.username # "" \/ c.password # ""

\* `if bluesky_username and bluesky_password`
Configured(c) == c.username # "" /\ c.password # ""

\* What the cycle knows about its session once the login block is behind it.
Session(c, login) ==
    [username |-> c.username, password |-> c.password, login |-> login]

\* The else branch of the login block: no login, the client stays anonymous.
LoginSkipped ==
    /\ pc = "idle"
    /\ cycle < MaxCycles
    /\ \E c \in Credentials :
          /\ ~Configured(c)
          /\ auth' = Session(c, "skipped")
    /\ cycle' = cycle + 1
    /\ pc' = "authenticated"
    /\ UNCHANGED <<db, tasks, modal, aside, channels, feed, configs, expired,
                   posts, ci, pi, last_post_dt, sentCount, passVars, lastEnd,
                   sendFail, commitFail, prevClean, repeat, limit>>

\* client.login returns.
LoginOk ==
    /\ pc = "idle"
    /\ cycle < MaxCycles
    /\ \E c \in Credentials :
          /\ Configured(c)
          /\ auth' = Session(c, "ok")
    /\ cycle' = cycle + 1
    /\ pc' = "authenticated"
    /\ UNCHANGED <<db, tasks, modal, aside, channels, feed, configs, expired,
                   posts, ci, pi, last_post_dt, sentCount, passVars, lastEnd,
                   sendFail, commitFail, prevClean, repeat, limit>>

\* client.login raises: the cycle returns before reading anything.
LoginFailed ==
    /\ pc = "idle"
    /\ cycle < MaxCycles
    /\ \E c \in Credentials :
          /\ Configured(c)
          /\ auth' = Session(c, "failed")
    /\ cycle' = cycle + 1
    /\ EndCycle("login_failed")

\* `if not configs: return`
NoEnabledGuilds ==
    /\ pc = "authenticated"
    /\ EnabledConfigs = <<>>
    /\ EndCycle("early")
    /\ UNCHANGED cycle

\* get_profile or get_author_feed raises: caught by the outer except.
FetchFailed ==
    /\ pc = "authenticated"
    /\ EnabledConfigs # <<>>
    /\ EndCycle("aborted")
    /\ UNCHANGED cycle

\* The enabled guilds are read, the profile and the page are fetched.
Fetch ==
    /\ pc = "authenticated"
    /\ EnabledConfigs # <<>>
    /\ configs' = EnabledConfigs
    /\ limit' = PageLimit(EnabledConfigs)
    /\ \E page \in FeedPages(limit') :
          /\ posts' = page
          /\ repeat' = (prevClean /\ page = posts)
    /\ auth' = NoAuth
    /\ expired' = FALSE
    /\ ci' = 1
    /\ pi' = 1
    /\ pc' = "guild"
    /\ passSent' = <<>>
    /\ passFailed' = {}
    /\ passGuild' = 0
    /\ passStart' = NoTime
    /\ sendFail' = FALSE
    /\ commitFail' = FALSE
    /\ prevClean' = TRUE
    /\ UNCHANGED <<db, tasks, modal, aside, channels, feed, last_post_dt,
                   sentCount, lastEnd, cycle>>

\* The instance the per-guild loop is at.
Config == configs[ci]

\* `for config in configs` is exhausted: the cycle ends normally.
CycleDone ==
    /\ pc = "guild"
    /\ ci > Len(configs)
    /\ EndCycle("complete")
    /\ UNCHANGED cycle

\* config.bluesky_channel_id on an instance the session expired (AsyncSession
\* is built with its default expire_on_commit, and the commit or rollback of
\* an earlier pass expired every instance): the attribute load raises in
\* async code, the outer except ends the cycle.
ExpiredInstanceRead ==
    /\ pc = "guild"
    /\ ci <= Len(configs)
    /\ expired
    /\ EndCycle("aborted")
    /\ UNCHANGED cycle

\* `if not channel: continue`
ChannelNotFound ==
    /\ pc = "guild"
    /\ ci <= Len(configs)
    /\ ~expired
    /\ ~ChannelFound(Config.row.bluesky_channel_id)
    /\ ci' = ci + 1
    /\ UNCHANGED <<db, tasks, modal, aside, channels, feed, pc, configs, expired, posts, pi,
                   last_post_dt, histVars>>

\* The stored watermark, or the epoch when there is none.
LastPostTime(cfg) ==
    IF Truthy(cfg.row.last_bluesky_post) THEN cfg.row.last_bluesky_post
    ELSE EpochTime

\* datetime.fromisoformat of the stored watermark raises, outside the
\* per-item try: the outer except ends the cycle.
WatermarkUnparsable ==
    /\ pc = "guild"
    /\ ci <= Len(configs)
    /\ ~expired
    /\ ChannelFound(Config.row.bluesky_channel_id)
    /\ ParseFails(LastPostTime(Config))
    /\ EndCycle("aborted")
    /\ UNCHANGED cycle

\* The guild's pass begins: last_post_dt is fixed for the whole pass.
BeginPass ==
    /\ pc = "guild"
    /\ ci <= Len(configs)
    /\ ~expired
    /\ ChannelFound(Config.row.bluesky_channel_id)
    /\ ~ParseFails(LastPostTime(Config))
    /\ last_post_dt' = ParseTime(LastPostTime(Config))
    /\ pi' = 1
    /\ pc' = "item"
    /\ passGuild' = Config.row.guild_id
    /\ passSent' = <<>>
    /\ passFailed' = {}
    /\ passStart' = Config.row.last_bluesky_post
    /\ UNCHANGED <<db, tasks, modal, aside, channels, feed, configs, expired, posts, ci,
                   sentCount, flagVars>>

\* The post the item loop is at.
Post == posts[pi]

NextItem ==
    /\ pi' = pi + 1
    /\ UNCHANGED <<db, tasks, modal, aside, channels, feed, pc, configs, expired, posts, ci,
                   last_post_dt>>

\* `if not post_time: continue`
ItemNoTimestamp ==
    /\ pc = "item"
    /\ pi <= Len(posts)
    /\ ~Truthy(CreatedAt(Post))
    /\ NextItem
    /\ UNCHANGED histVars

\* fromisoformat(post_time) raises inside the per-item try.
ItemUnparsable ==
    /\ pc = "item"
    /\ pi <= Len(posts)
    /\ Truthy(CreatedAt(Post))
    /\ ParseFails(CreatedAt(Post))
    /\ NextItem
    /\ UNCHANGED histVars

\* Mutant of IsNew: the comparison with the watermark is not strict.
IsNew_OrEqual(uri) ==
    /\ Truthy(CreatedAt(uri))
    /\ ~ParseFails(CreatedAt(uri))
    /\ ParseTime(CreatedAt(uri)) >= last_post_dt

\* `if post_dt > last_post_dt`
IsNew(uri) ==
    /\ Truthy(CreatedAt(uri))
    /\ ~ParseFails(CreatedAt(uri))
    /\ ParseTime(CreatedAt(uri)) > last_post_dt

\* The post is not after the watermark: nothing is sent.
ItemNotNew ==
    /\ pc = "item"
    /\ pi <= Len(posts)
    /\ Truthy(CreatedAt(Post))
    /\ ~ParseFails(CreatedAt(Post))
    /\ ~IsNew(Post)
    /\ NextItem
    /\ UNCHANGED histVars

\* await channel.send(embed=embed) returns.
SendOk ==
    /\ pc = "item"
    /\ pi <= Len(posts)
    /\ IsNew(Post)
    /\ sentCount' = [sentCount EXCEPT ![passGuild][Post] = Min(@ + 1, 2)]
    /\ passSent' = Append(passSent, Post)
    /\ NextItem
    /\ UNCHANGED <<passFailed, passGuild, passStart, flagVars>>

\* await channel.send(embed=embed) raises: caught per item, the loop goes on.
SendFailed ==
    /\ pc = "item"
    /\ pi <= Len(posts)
    /\ IsNew(Post)
    /\ passFailed' = passFailed \cup {Post}
    /\ sendFail' = TRUE
    /\ NextItem
    /\ UNCHANGED <<sentCount, passSent, passGuild, passStart, cycle,
                   lastEnd, commitFail, prevClean, repeat, auth, limit>>

\* `for post in posts` is exhausted.
EndItems ==
    /\ pc = "item"
    /\ pi > Len(posts)
    /\ pc' = "commit"
    /\ UNCHANGED <<db, tasks, modal, aside, channels, feed, configs, expired, posts, ci, pi,
                   last_post_dt, histVars>>

\* latest_time = posts[0].post.record.created_at
LatestTime == CreatedAt(posts[1])

\* `if posts:` or `if latest_time:` is false: no assignment, no commit.
NoWatermarkUpdate ==
    /\ pc = "commit"
    /\ IF posts = <<>> THEN TRUE ELSE ~Truthy(LatestTime)
    /\ ci' = ci + 1
    /\ pc' = "guild"
    /\ UNCHANGED <<db, tasks, modal, aside, channels, feed, configs, expired, posts, pi,
                   last_post_dt, histVars>>

\* Mutant of WriteWatermark: the flush writes every column of the instance
\* as the cycle's select loaded it.
WriteWatermark_WholeRow(id, latest_time) ==
    [db EXCEPT ![id] = [configs[ci].row EXCEPT !.last_bluesky_post = latest_time]]

\* config.last_bluesky_post = latest_time; await session.commit() returns.
\* The flush updates that one column of the instance's row.
WriteWatermark(id, latest_time) ==
    [db EXCEPT ![id].last_bluesky_post = latest_time]

CommitOk ==
    /\ pc = "commit"
    /\ posts # <<>>
    /\ Truthy(LatestTime)
    /\ db' = WriteWatermark(Config.id, LatestTime)
    /\ expired' = TRUE
    /\ ci' = ci + 1
    /\ pc' = "guild"
    /\ UNCHANGED <<tasks, modal, aside, channels, feed, configs, posts, pi, last_post_dt, histVars>>

\* await session.commit() raises: caught, the row keeps its watermark; the
\* rollback expires the instances as a commit does.
CommitFailed ==
    /\ pc = "commit"
    /\ posts # <<>>
    /\ Truthy(LatestTime)
    /\ expired' = TRUE
    /\ commitFail' = TRUE
    /\ ci' = ci + 1
    /\ pc' = "guild"
    /\ UNCHANGED <<db, tasks, modal, aside, channels, feed, configs, posts, pi, last_post_dt,
                   sentCount, passVars, cycle, lastEnd, sendFail, prevClean,
                   repeat, auth, limit>>

\* update_guild_config for a guild that has its row, run without another
\* writer between its select and its commit (toggle button, channel modal).
\* It commits at one of the cycle's awaits.  The cycle reads the table only
\* in Fetch and writes only the watermark column of its own row, so a write
\* of a setting commutes with the item and commit steps: it is taken at the
\* loop boundaries, which every pass goes through.
UpdateSetting(g, setting, value) ==
    /\ pc \in {"idle", "guild"}
    /\ RowsOf(g) # {}
    /\ db' = [db EXCEPT ![RowOf(g)] = SetField(@, setting, value)]
    /\ db' # db
    /\ prevClean' = FALSE
    /\ UNCHANGED <<tasks, modal, aside, channels, feed, cycleVars, sentCount, passVars, cycle,
                   lastEnd, sendFail, commitFail, repeat, auth, limit>>

\* BlueskyToggleButton.callback
ToggleFeed ==
    \E g \in Guilds, current_state \in BOOLEAN :
        /\ RowsOf(g) # {}
        /\ UpdateSetting(g, "BLUESKY_ENABLED", IF current_state THEN 0 ELSE 1)

\* SettingsModal.on_submit for BLUESKY_CHANNEL with a text channel of the guild
SetFeedChannel ==
    \E g \in Guilds :
        /\ GuildChannelIs(g, TextChannelOf(g), "text")
        /\ UpdateSetting(g, "BLUESKY_CHANNEL", TextChannelOf(g))

\* ------------------------------------------------------ feed specification
\* A watermark left by an earlier run of the bot: the created_at of a post
\* older than every item of the present timeline.
OldTime == UtcTime(0)

\* bot.db when the bot starts: every guild has its row (on_guild_join), with
\* the column defaults and either no watermark or one of an earlier run.
StoredTables ==
    {t \in [Guilds -> {GuildConfig(g) : g \in Guilds}
                      \cup {[GuildConfig(g) EXCEPT !.last_bluesky_post = OldTime] :
                               g \in Guilds}] :
        \A g \in Guilds : t[g].guild_id = g}

InitFeed ==
    /\ db \in StoredTables
    /\ AsideInit
    /\ channels = InitChannels
    /\ feed \in [Uris -> Stamps]
    /\ pc = "idle"
    /\ configs = <<>>
    /\ expired = FALSE
    /\ posts = <<>>
    /\ ci = 1
    /\ pi = 1
    /\ last_post_dt = 0
    /\ sentCount = [g \in Guilds |-> [u \in Uris |-> 0]]
    /\ passSent = <<>>
    /\ passFailed = {}
    /\ passGuild = 0
    /\ passStart = NoTime
    /\ lastEnd = "none"
    /\ sendFail = FALSE
    /\ commitFail = FALSE
    /\ prevClean = FALSE
    /\ cycle = 0
    /\ repeat = FALSE
    /\ auth = NoAuth
    /\ limit = 0
    /\ tasks = [t \in Tasks |-> IdleTask]
    /\ modal = NoModal

NextFeed ==
    \/ LoginSkipped
    \/ LoginOk
    \/ LoginFailed
    \/ NoEnabledGuilds
    \/ FetchFailed
    \/ Fetch
    \/ CycleDone
    \/ ExpiredInstanceRead
    \/ ChannelNotFound
    \/ WatermarkUnparsable
    \/ BeginPass
    \/ ItemNoTimestamp
    \/ ItemUnparsable
    \/ ItemNotNew
    \/ SendOk
    \/ SendFailed
    \/ EndItems
    \/ NoWatermarkUpdate
    \/ CommitOk
    \/ CommitFailed
    \/ ToggleFeed
    \/ SetFeedChannel

SpecFeed == InitFeed /\ [][NextFeed]_vars

\* ----------------------------------------------------------- provisioning
\* The handler slots of the signup / help commands.
Reqs == 1..MaxTasks

\* The members who invoke commands.
Users == {1, 2}

\* interaction.user.display_name
DisplayName(u) == IF u = 1 THEN <<"A">> ELSE <<"a", "b">>

\* channel_suffix of the two commands
Introduction ==
    <<"i", "n", "t", "r", "o", "d", "u", "c", "t", "i", "o", "n">>
Help == <<"h", "e", "l", "p">>
Suffixes == {Introduction, Help}

\* Mutant of ChannelName: the display name is used as typed.
ChannelName_AsTyped(u, channel_suffix) ==
    DisplayName(u) \o <<"-">> \o channel_suffix

\* channel_name = f"{user_display_name.lower()}-{channel_suffix}"
ChannelName(u, channel_suffix) ==
    Lower(DisplayName(u)) \o <<"-">> \o channel_suffix

\* The overwrites dict of create_private_channel; "unset" is a permission the
\* PermissionOverwrite leaves at None.
Overwrites(u) ==
    {[target |-> "default_role", read_messages |-> "deny",
      send_messages |-> "unset"],
     [target |-> <<"user", u>>, read_messages |-> "allow",
      send_messages |-> "allow"],
     [target |-> "me", read_messages |-> "allow", send_messages |-> "allow"]}

\* The guild members a stored username matches, as get_admin_mentions tests.
MatchingMembers(g, username) ==
    IF HasHash(username)
    THEN {m \in Members(g) :
            /\ Lower(m.name) = Lower(RSplitName(username))
            /\ m.discriminator = RSplitDiscriminator(username)}
    ELSE {m \in Members(g) : Lower(m.name) = Lower(username)}

\* members[0].id: the first match in guild.members order (by id here).
FirstMember(ms) == CHOOSE i \in {m.id : m \in ms} :
                       \A j \in {m.id : m \in ms} : i <= j

\* The loop of get_admin_mentions over the usernames.
RECURSIVE MentionsOf(_, _)
MentionsOf(g, usernames) ==
    IF usernames = <<>> THEN <<>>
    ELSE (IF MatchingMembers(g, Head(usernames)) = {} THEN <<>>
          ELSE <<FirstMember(MatchingMembers(g, Head(usernames)))>>)
         \o MentionsOf(g, Tail(usernames))

\* get_admin_mentions(guild, admin_usernames): the member ids mentioned.
GetAdminMentions(g, admin_usernames) ==
    IF admin_usernames = <<>> THEN <<>>
    ELSE MentionsOf(g, Usernames(admin_usernames))

\* welcome_message / help_message: who it greets and whom it mentions.
SeedMessage(u, channel_suffix, admin_mentions) ==
    [command |-> channel_suffix, user |-> u, mentions |-> admin_mentions]

\* interaction.guild.get_channel(id) is not None
GuildHasChannel(g, id) == \E c \in channels : c.id = id /\ c.guild = g

\* Mutant of AddChannel: an existing channel of the same name is reused.
AddChannel_Unique(channel) ==
    IF \E i \in DOMAIN created :
           created[i].guild = channel.guild /\ created[i].name = channel.name
    THEN created ELSE Append(created, channel)

\* guild.create_text_channel returned: the platform has one more channel.
AddChannel(channel) == Append(created, channel)

provFrame == <<readies, loopTasks, active, views, presses, named, cleans, tasks, modal, channels, feed, pc, configs, expired, posts, ci,
               pi, last_post_dt, sentCount, passSent, passFailed, passGuild,
               passStart, cycle, lastEnd, sendFail, commitFail, prevClean,
               repeat, auth,
                limit>>

\* The handler in slot r ends with `response` sent to the caller (followup).
Followup(r, response) ==
    provs' = [provs EXCEPT ![r].pc = "done", ![r].response = response]

\* /signup or /help passes its cooldown check and is deferred; its handler
\* takes the first slot no invocation has used.
Invoke ==
    \E r \in Reqs, g \in Guilds, u \in Users, suffix \in Suffixes :
        /\ provs[r].pc = "idle"
        /\ \A q \in Reqs : q < r => provs[q].pc # "idle"
        /\ <<suffix, u>> \notin cooldown
        /\ cooldown' = cooldown \cup {<<suffix, u>>}
        /\ provs' = [provs EXCEPT ![r] =
                        [IdleProv EXCEPT !.pc = "deferred", !.guild_id = g,
                                         !.user = u, !.suffix = suffix]]
        /\ UNCHANGED <<db, created, seeds, provFrame>>

\* The cooldown of a command for a user runs out (300 s resp. 60 s).  Once
\* every handler slot is taken no further invocation is followed, and the
\* cooldowns are no longer tracked.
CooldownExpires ==
    \E key \in cooldown :
        /\ \E r \in Reqs : provs[r].pc = "idle"
        /\ cooldown' = cooldown \ {key}
        /\ UNCHANGED <<db, provs, created, seeds, provFrame>>

\* get_guild_config in the handler: the select has run.
HandlerSelect ==
    \E r \in Reqs :
        /\ provs[r].pc = "deferred"
        /\ provs' = [provs EXCEPT ![r].pc = "selected",
                                  ![r].config = SelectConfig(provs[r].guild_id)]
        /\ UNCHANGED <<db, created, seeds, cooldown, provFrame>>

\* `if not config` in get_guild_config: the row is inserted and committed.
\* The commit expires the instance, so config.admin_usernames in the handler
\* raises and `except Exception` reports it.
HandlerInsert ==
    \E r \in Reqs :
        /\ provs[r].pc = "selected"
        /\ provs[r].config = NoConfig
        /\ ~UniqueViolation(provs[r].guild_id)
        /\ db' = Append(db, GuildConfig(provs[r].guild_id))
        /\ Followup(r, "error")
        /\ UNCHANGED <<created, seeds, cooldown, provFrame>>

\* The insert of get_guild_config raises IntegrityError: another handler
\* inserted the guild's row since the select.
HandlerInsertRaises ==
    \E r \in Reqs :
        /\ provs[r].pc = "selected"
        /\ provs[r].config = NoConfig
        /\ UniqueViolation(provs[r].guild_id)
        /\ Followup(r, "error")
        /\ UNCHANGED <<db, created, seeds, cooldown, provFrame>>

\* admin_mentions of the handler, from the config its select loaded.
AdminMentions(r) ==
    GetAdminMentions(provs[r].guild_id, provs[r].config.row.admin_usernames)

\* `if not admin_mentions:` respond and return
NoAdmins ==
    \E r \in Reqs :
        /\ provs[r].pc = "selected"
        /\ provs[r].config # NoConfig
        /\ AdminMentions(r) = <<>>
        /\ Followup(r, "no_admins")
        /\ UNCHANGED <<db, created, seeds, cooldown, provFrame>>

\* config.private_channels_category as create_private_channel's own
\* get_guild_config reads it now.
CategoryNow(r) == SelectConfig(provs[r].guild_id).row.private_channels_category

\* The handler's mentions are not empty and create_private_channel has its
\* config: the select of its get_guild_config has run.
InCreatePrivateChannel(r) ==
    /\ provs[r].pc = "selected"
    /\ provs[r].config # NoConfig
    /\ AdminMentions(r) # <<>>
    /\ RowsOf(provs[r].guild_id) # {}

\* `if not config.private_channels_category: raise ValueError`
CategoryNotSet ==
    \E r \in Reqs :
        /\ InCreatePrivateChannel(r)
        /\ CategoryNow(r) = NoId
        /\ Followup(r, "category_not_set")
        /\ UNCHANGED <<db, created, seeds, cooldown, provFrame>>

\* `if not category: raise ValueError`
CategoryNotFound ==
    \E r \in Reqs :
        /\ InCreatePrivateChannel(r)
        /\ CategoryNow(r) # NoId
        /\ ~GuildHasChannel(provs[r].guild_id, CategoryNow(r))
        /\ Followup(r, "category_not_found")
        /\ UNCHANGED <<db, created, seeds, cooldown, provFrame>>

\* Both checks pass: create_text_channel is called.
CallCreate ==
    \E r \in Reqs :
        /\ InCreatePrivateChannel(r)
        /\ CategoryNow(r) # NoId
        /\ GuildHasChannel(provs[r].guild_id, CategoryNow(r))
        /\ provs' = [provs EXCEPT ![r].pc = "create",
                                  ![r].mentions = AdminMentions(r),
                                  ![r].category = CategoryNow(r),
                                  ![r].creates = @ + 1]
        /\ UNCHANGED <<db, created, seeds, cooldown, provFrame>>

\* The channel create_text_channel is asked for.
NewChannel(r) ==
    [guild |-> provs[r].guild_id, owner |-> provs[r].user,
     name |-> ChannelName(provs[r].user, provs[r].suffix),
     overwrites |-> Overwrites(provs[r].user),
     category |-> provs[r].category]

\* create_text_channel returns the channel; channel.send is called.
CreateOk ==
    \E r \in Reqs :
        /\ provs[r].pc = "create"
        /\ created' = AddChannel(NewChannel(r))
        /\ provs' = [provs EXCEPT ![r].pc = "send",
                                  ![r].channel = Len(created'),
                                  ![r].sends = @ + 1]
        /\ UNCHANGED <<db, seeds, cooldown, provFrame>>

\* The responses of the handler's except clauses for a platform fault:
\* discord.Forbidden, or any other exception.
Faults == {"forbidden", "error"}

\* create_text_channel raises: no channel, the handler reports it.
CreateRaises ==
    \E r \in Reqs, fault \in Faults :
        /\ provs[r].pc = "create"
        /\ Followup(r, fault)
        /\ UNCHANGED <<db, created, seeds, cooldown, provFrame>>

\* channel.send(welcome_message) returns; the handler confirms.
SeedOk ==
    \E r \in Reqs :
        /\ provs[r].pc = "send"
        /\ seeds' = Append(seeds,
                [channel |-> provs[r].channel,
                 content |-> SeedMessage(provs[r].user, provs[r].suffix,
                                         provs[r].mentions)])
        /\ Followup(r, "created")
        /\ UNCHANGED <<db, created, cooldown, provFrame>>

\* channel.send raises: the channel stays without its seed message.
SeedRaises ==
    \E r \in Reqs, fault \in Faults :
        /\ provs[r].pc = "send"
        /\ Followup(r, fault)
        /\ UNCHANGED <<db, created, seeds, cooldown, provFrame>>

\* A category id stored for a category that was deleted since.
GoneCategory == 99

\* admin_usernames values stored by earlier edits: none, a member, a member
\* under the discriminator it had before its account was migrated, and a
\* list of one of each.
AdminLists ==
    {<<>>, <<"b">>, <<"b", "#", "1">>,
     <<"A", "#", "1", ",", "b", "#", "1">>}

\* The rows a guild can have when a member invokes a command.
ProvisionRows(g) ==
    {[GuildConfig(g) EXCEPT !.admin_usernames = a,
                            !.private_channels_category = c] :
        a \in AdminLists, c \in {NoId, CategoryOf(g), GoneCategory}}

\* bot.db when members invoke commands: each guild has one of these rows, or
\* none yet (the bot joined the guild while it was offline).
ProvisionTables ==
    {SelectSeq(t, LAMBDA row : row.guild_id # 0) :
        t \in {f \in [Guilds -> UNION {ProvisionRows(g) : g \in Guilds}
                                \cup {GuildConfig(0)}] :
                  \A g \in Guilds : f[g].guild_id \in {0, g}}}

InitProvision ==
    /\ db \in ProvisionTables
    /\ AsideInit
    /\ tasks = [t \in Tasks |-> IdleTask]
    /\ modal = NoModal
    /\ channels = InitChannels
    /\ feed = [u \in Uris |-> NoTime]
    /\ pc = "idle"
    /\ configs = <<>>
    /\ expired = FALSE
    /\ posts = <<>>
    /\ ci = 1
    /\ pi = 1
    /\ last_post_dt = 0
    /\ sentCount = [g \in Guilds |-> [u \in Uris |-> 0]]
    /\ passSent = <<>>
    /\ passFailed = {}
    /\ passGuild = 0
    /\ passStart = NoTime
    /\ cycle = 0
    /\ lastEnd = "none"
    /\ sendFail = FALSE
    /\ commitFail = FALSE
    /\ prevClean = FALSE
    /\ repeat = FALSE
    /\ auth = NoAuth
    /\ limit = 0

NextProvision ==
    \/ Invoke
    \/ CooldownExpires
    \/ HandlerSelect
    \/ HandlerInsert
    \/ HandlerInsertRaises
    \/ NoAdmins
    \/ CategoryNotSet
    \/ CategoryNotFound
    \/ CallCreate
    \/ CreateOk
    \/ CreateRaises
    \/ SeedOk
    \/ SeedRaises

SpecProvision == InitProvision /\ [][NextProvision]_vars

\* ------------------------------------------------------------------ timer
MaxLoops == 2       \* loop tasks started in a run

\* The on_ready handler slots (one per READY event being handled).
Readies == 1..MaxTasks

\* bluesky_feed_task.is_running(): the Loop has a task that is not done.
IsRunning ==
    loopTasks # <<>> /\ loopTasks[Len(loopTasks)].pc # "done"

\* Mutant of AwaitsCycle: the task body starts the cycle without awaiting it.
AwaitsCycle_Detached == FALSE

\* `await check_bluesky_feed()`: the task body, and so the loop's iteration,
\* is over only when the cycle has returned.
AwaitsCycle == TRUE

timerFrame == <<db, tasks, modal, provVars, views, presses, named, cleans, channels, feed, pc, configs,
                expired, posts, ci, pi, last_post_dt, sentCount, passSent,
                passFailed, passGuild, passStart, cycle, lastEnd, sendFail,
                commitFail, prevClean, repeat, auth,
                limit>>

\* The gateway sends READY (first connect, or a reconnect that could not
\* resume): on_ready is scheduled and runs up to its awaits.
OnReady ==
    \E h \in Readies :
        /\ readies[h] = "idle"
        /\ readies' = [readies EXCEPT ![h] = "init_db"]
        /\ UNCHANGED <<loopTasks, active, timerFrame>>

\* await init_db() resp. await migrate_db() returns.
SetupStep ==
    \E h \in Readies :
        /\ readies[h] \in {"init_db", "migrate_db"}
        /\ readies' = [readies EXCEPT
                          ![h] = IF @ = "init_db" THEN "migrate_db" ELSE "sync"]
        /\ UNCHANGED <<loopTasks, active, timerFrame>>

\* init_db, migrate_db or tree.sync raises: `except Exception` prints it.
SetupFails ==
    \E h \in Readies :
        /\ readies[h] \in {"init_db", "migrate_db", "sync"}
        /\ readies' = [readies EXCEPT ![h] = "idle"]
        /\ UNCHANGED <<loopTasks, active, timerFrame>>

\* tree.sync returns; `if not bluesky_feed_task.is_running():
\* bluesky_feed_task.start()`, with no await between the test and the call.
\* The new task first awaits bot.wait_until_ready() (before_loop).
StartLoop ==
    \E h \in Readies :
        /\ readies[h] = "sync"
        /\ readies' = [readies EXCEPT ![h] = "presence"]
        /\ loopTasks' = IF IsRunning THEN loopTasks
                        ELSE Append(loopTasks, [pc |-> "waiting", late |-> FALSE])
        /\ UNCHANGED <<active, timerFrame>>

\* change_presence returns or raises: the handler is over.
ReadyEnds ==
    \E h \in Readies :
        /\ readies[h] = "presence"
        /\ readies' = [readies EXCEPT ![h] = "idle"]
        /\ UNCHANGED <<loopTasks, active, timerFrame>>

\* wait_until_ready returns: the first iteration is due at once.
BeforeLoopDone ==
    \E i \in DOMAIN loopTasks :
        /\ loopTasks[i].pc = "waiting"
        /\ loopTasks' = [loopTasks EXCEPT ![i].pc = "due"]
        /\ UNCHANGED <<readies, active, timerFrame>>

\* The loop calls the task body: a check_bluesky_feed call begins.
IterationStarts ==
    \E i \in DOMAIN loopTasks :
        /\ loopTasks[i].pc = "due"
        /\ active < MaxLoops
        /\ active' = active + 1
        /\ loopTasks' = [loopTasks EXCEPT
                            ![i].pc = IF AwaitsCycle THEN "running"
                                      ELSE "sleeping",
                            ![i].late = FALSE]
        /\ UNCHANGED <<readies, timerFrame>>

\* Five minutes have passed since the iteration began.  A sleeping loop
\* wakes; a loop still inside its cycle only finds out when the cycle is
\* over.
TimerFire ==
    \E i \in DOMAIN loopTasks :
        /\ \/ /\ loopTasks[i].pc = "sleeping"
              /\ loopTasks' = [loopTasks EXCEPT ![i].pc = "due"]
           \/ /\ loopTasks[i].pc = "running"
              /\ ~loopTasks[i].late
              /\ loopTasks' = [loopTasks EXCEPT ![i].late = TRUE]
        /\ UNCHANGED <<readies, active, timerFrame>>

\* check_bluesky_feed returns: the loop sleeps until the next iteration, which
\* is due at once when the interval ran out during the cycle.
CycleReturns ==
    \E i \in DOMAIN loopTasks :
        /\ loopTasks[i].pc = "running"
        /\ active' = active - 1
        /\ loopTasks' = [loopTasks EXCEPT
                            ![i].pc = IF loopTasks[i].late THEN "due"
                                      ELSE "sleeping",
                            ![i].late = FALSE]
        /\ UNCHANGED <<readies, timerFrame>>

\* check_bluesky_feed raises (the select of the enabled guilds is outside its
\* try): the exception ends the loop's task.
CycleRaises ==
    \E i \in DOMAIN loopTasks :
        /\ loopTasks[i].pc = "running"
        /\ Len(loopTasks) < MaxLoops
        /\ active' = active - 1
        /\ loopTasks' = [loopTasks EXCEPT ![i].pc = "done", ![i].late = FALSE]
        /\ UNCHANGED <<readies, timerFrame>>

\* bot.run(token): nothing is stored yet, no handler runs, no loop exists.
InitTimer ==
    /\ db = <<>>
    /\ AsideInit
    /\ tasks = [t \in Tasks |-> IdleTask]
    /\ modal = NoModal
    /\ channels = InitChannels
    /\ feed = [u \in Uris |-> NoTime]
    /\ pc = "idle"
    /\ configs = <<>>
    /\ expired = FALSE
    /\ posts = <<>>
    /\ ci = 1
    /\ pi = 1
    /\ last_post_dt = 0
    /\ sentCount = [g \in Guilds |-> [u \in Uris |-> 0]]
    /\ passSent = <<>>
    /\ passFailed = {}
    /\ passGuild = 0
    /\ passStart = NoTime
    /\ cycle = 0
    /\ lastEnd = "none"
    /\ sendFail = FALSE
    /\ commitFail = FALSE
    /\ prevClean = FALSE
    /\ repeat = FALSE
    /\ auth = NoAuth
    /\ limit = 0

NextTimer ==
    \/ OnReady
    \/ SetupStep
    \/ SetupFails
    \/ StartLoop
    \/ ReadyEnds
    \/ BeforeLoopDone
    \/ IterationStarts
    \/ TimerFire
    \/ CycleReturns
    \/ CycleRaises

SpecTimer == InitTimer /\ [][NextTimer]_vars

\* ----------------------------------------------------------- feed toggle
MaxViews == 2

\* bool(config.bluesky_enabled)
Bool(n) == n # 0

\* str(int(new_state))
StrOfBool(b) == IF b THEN <<"1">> ELSE <<"0">>

\* `new_state = not self.current_state`
NewState(view) == ~view.current_state

toggleFrame == <<tasks, modal, provVars, readies, loopTasks, active, named,
                 cleans, channels,
                 feed, pc, configs, expired, posts, ci, pi, last_post_dt,
                 sentCount, passSent, passFailed, passGuild, passStart, cycle,
                 lastEnd, sendFail, commitFail, prevClean, repeat, auth,
                 limit>>

\* SettingsSelect.callback with BLUESKY_ENABLED chosen: get_guild_config finds
\* the row /settings made and a view is sent whose button holds the value
\* read now.
OpenToggleView ==
    \E g \in Guilds :
        /\ Len(views) < MaxViews
        /\ SelectConfig(g) # NoConfig
        /\ views' = Append(views,
              [guild_id |-> g,
               current_state |-> Bool(SelectConfig(g).row.bluesky_enabled)])
        /\ UNCHANGED <<db, presses, toggleFrame>>

\* BlueskyToggleButton.callback, up to the select of update_guild_config.
PressSelect ==
    \E p \in Tasks, v \in DOMAIN views :
        /\ presses[p].pc = "idle"
        /\ presses' = [presses EXCEPT ![p] =
              [pc |-> "selected", view |-> v, new_state |-> NewState(views[v]),
               config |-> SelectConfig(views[v].guild_id),
               before |-> db[RowOf(views[v].guild_id)].bluesky_enabled]]
        /\ UNCHANGED <<db, views, toggleFrame>>

\* update_guild_config: `config.bluesky_enabled = int(value)` and the commit.
PressCommit ==
    \E p \in Tasks :
        /\ presses[p].pc = "selected"
        /\ db' = FlushUpdate([config |-> presses[p].config,
                              setting |-> "BLUESKY_ENABLED",
                              value |-> IntOf(StrOfBool(presses[p].new_state))])
        /\ presses' = [presses EXCEPT ![p].pc = "committed"]
        /\ UNCHANGED <<views, toggleFrame>>

\* interaction.response.send_message: the callback is over.
PressResponds ==
    \E p \in Tasks :
        /\ presses[p].pc = "committed"
        /\ presses' = [presses EXCEPT ![p] = IdlePress]
        /\ UNCHANGED <<db, views, toggleFrame>>

\* Every guild has the row /settings made before it showed its menu.
ToggleTables ==
    {t \in [Guilds -> {[GuildConfig(g) EXCEPT !.bluesky_enabled = e] :
                          g \in Guilds, e \in {0, 1}}] :
        \A g \in Guilds : t[g].guild_id = g}

InitToggle ==
    /\ db \in ToggleTables
    /\ AsideInit
    /\ tasks = [t \in Tasks |-> IdleTask]
    /\ modal = NoModal
    /\ channels = InitChannels
    /\ feed = [u \in Uris |-> NoTime]
    /\ pc = "idle"
    /\ configs = <<>>
    /\ expired = FALSE
    /\ posts = <<>>
    /\ ci = 1
    /\ pi = 1
    /\ last_post_dt = 0
    /\ sentCount = [g \in Guilds |-> [u \in Uris |-> 0]]
    /\ passSent = <<>>
    /\ passFailed = {}
    /\ passGuild = 0
    /\ passStart = NoTime
    /\ cycle = 0
    /\ lastEnd = "none"
    /\ sendFail = FALSE
    /\ commitFail = FALSE
    /\ prevClean = FALSE
    /\ repeat = FALSE
    /\ auth = NoAuth
    /\ limit = 0

NextToggle ==
    \/ OpenToggleView
    \/ PressSelect
    \/ PressCommit
    \/ PressResponds

SpecToggle == InitToggle /\ [][NextToggle]_vars

\* ------------------------------------------- settings racing the cycle
\* bot.db of a bot whose two guilds have the feed switched on, the first
\* with its channel set and the first item of the timeline delivered by an
\* earlier run, the second with no channel yet.
RaceTable ==
    [g \in Guilds |->
        [GuildConfig(g) EXCEPT
            !.bluesky_enabled = 1,
            !.bluesky_channel_id = IF g = 1 THEN TextChannelOf(g) ELSE 0,
            !.last_bluesky_post = IF g = 1 THEN UtcTime(1) ELSE NoTime]]

\* A timeline of well-formed items, one instant apart.
RaceFeed == [u \in Uris |-> UtcTime(u)]

\* The cycles run so far found no guild enabled; the admins have since set
\* the guilds up.  One more cycle is to run, or none.
InitRace ==
    /\ db = RaceTable
    /\ AsideInit
    /\ channels = InitChannels
    /\ feed = RaceFeed
    /\ pc = "idle"
    /\ configs = <<>>
    /\ expired = FALSE
    /\ posts = <<>>
    /\ ci = 1
    /\ pi = 1
    /\ last_post_dt = 0
    /\ sentCount = [g \in Guilds |-> [u \in Uris |-> 0]]
    /\ passSent = <<>>
    /\ passFailed = {}
    /\ passGuild = 0
    /\ passStart = NoTime
    /\ lastEnd = "early"
    /\ sendFail = FALSE
    /\ commitFail = FALSE
    /\ prevClean = FALSE
    /\ cycle \in {MaxCycles - 1, MaxCycles}
    /\ repeat = FALSE
    /\ auth = NoAuth
    /\ limit = 0
    /\ tasks = [t \in Tasks |-> IdleTask]
    /\ modal = NoModal

\* The loop does not poll: its last cycle found no guild enabled and no
\* other will start.
NotPolling == pc = "idle" /\ cycle = MaxCycles /\ lastEnd = "early"

\* update_guild_config is called by a settings handler.  Each race has two
\* parties: beside a polling loop one call at a time is in flight, and two
\* calls overlap each other when the loop does not poll.  The call takes the
\* first free handler slot.
CallUpdate ==
    /\ \/ \A t \in Tasks : tasks[t].pc = "idle"
       \/ NotPolling
    /\ UpdateGuildConfigSelect
    /\ \A t \in Tasks :
          tasks'[t] # tasks[t] => \A t2 \in 1..(t - 1) : tasks[t2].pc # "idle"

\* The poll cycle, with the settings handlers' update_guild_config calls
\* running beside it: a call's select and its commit are separate steps
\* that fall between any two steps of the cycle.
NextRace ==
    \/ LoginSkipped
    \/ LoginOk
    \/ LoginFailed
    \/ NoEnabledGuilds
    \/ FetchFailed
    \/ Fetch
    \/ CycleDone
    \/ ExpiredInstanceRead
    \/ ChannelNotFound
    \/ BeginPass
    \/ ItemNotNew
    \/ SendOk
    \/ SendFailed
    \/ EndItems
    \/ NoWatermarkUpdate
    \/ CommitOk
    \/ CommitFailed
    \/ CallUpdate
    \/ UpdateCommit
    \/ TaskEnds

SpecRace == InitRace /\ [][NextRace]_vars

\* ---------------------------------------------------------------- cleanup
\* The name of the command, as its cooldown is keyed.
Cleanup == <<"c", "l", "e", "a", "n", "u", "p">>

\* str.endswith(suffix)
EndsWith(str, suffix) ==
    /\ Len(str) >= Len(suffix)
    /\ SubSeq(str, Len(str) - Len(suffix) + 1, Len(str)) = suffix

\* Mutant of IsCleanable: the suffix is looked for anywhere in the name.
IsCleanable_Anywhere(name) ==
    \E i \in 1..Len(name), suffix \in Suffixes :
        /\ i + Len(suffix) - 1 <= Len(name)
        /\ SubSeq(name, i, i + Len(suffix) - 1) = suffix

\* channel.name.endswith('introduction') or channel.name.endswith('help')
IsCleanable(name) ==
    EndsWith(name, Introduction) \/ EndsWith(name, Help)

cleanFrame == <<db, tasks, modal, provs, created, seeds, readies, loopTasks,
                active, views, presses, channels, feed, pc, configs, expired,
                posts, ci, pi, last_post_dt, sentCount, passSent, passFailed,
                passGuild, passStart, cycle, lastEnd, sendFail, commitFail,
                prevClean, repeat, auth, limit>>

\* The handler in slot r ends with `response` sent to the caller ("none":
\* the deferred interaction is left without a followup).
CleanupEnds(r, response) ==
    cleans' = [cleans EXCEPT ![r].pc = "done", ![r].response = response]

\* /cleanup is invoked in a channel and passes its cooldown check;
\* interaction.channel is the channel it was invoked in.
CleanupInvoke ==
    \E r \in Reqs, u \in Users, c \in named :
        /\ cleans[r].pc \in {"idle", "done"}
        /\ \A q \in Reqs : q < r => cleans[q].pc \notin {"idle", "done"}
        /\ <<Cleanup, u>> \notin cooldown
        /\ cooldown' = cooldown \cup {<<Cleanup, u>>}
        /\ cleans' = [cleans EXCEPT ![r] =
                         [pc |-> "started", channel |-> c.id, name |-> c.name,
                          user |-> u, response |-> "none"]]
        /\ UNCHANGED <<named, cleanFrame>>

\* /cleanup is invoked within 5 s of the user's last one: CommandOnCooldown,
\* cleanup_error answers and the command body does not run.
CleanupOnCooldown ==
    \E r \in Reqs, u \in Users, c \in named :
        /\ cleans[r].pc \in {"idle", "done"}
        /\ \A q \in Reqs : q < r => cleans[q].pc \notin {"idle", "done"}
        /\ <<Cleanup, u>> \in cooldown
        /\ cleans' = [cleans EXCEPT ![r] =
                         [pc |-> "done", channel |-> c.id, name |-> c.name,
                          user |-> u, response |-> "cooldown"]]
        /\ UNCHANGED <<named, cooldown, cleanFrame>>

\* The 5 s of a user's cooldown run out.
CleanupCooldownExpires ==
    \E u \in Users :
        /\ <<Cleanup, u>> \in cooldown
        /\ cooldown' = cooldown \ {<<Cleanup, u>>}
        /\ UNCHANGED <<named, cleans, cleanFrame>>

\* The name test fails: the caller is told, nothing else happens.
CleanupRejects ==
    \E r \in Reqs :
        /\ cleans[r].pc = "started"
        /\ ~IsCleanable(cleans[r].name)
        /\ CleanupEnds(r, "wrong_channel")
        /\ UNCHANGED <<named, cooldown, cleanFrame>>

\* The name test passes and interaction.response.defer returns.
CleanupDefers ==
    \E r \in Reqs :
        /\ cleans[r].pc = "started"
        /\ IsCleanable(cleans[r].name)
        /\ cleans' = [cleans EXCEPT ![r].pc = "deferred"]
        /\ UNCHANGED <<named, cooldown, cleanFrame>>

\* await channel.delete() returns: the channel is gone.
CleanupDeletes ==
    \E r \in Reqs :
        /\ cleans[r].pc = "deferred"
        /\ \E c \in named : c.id = cleans[r].channel
        /\ named' = {c \in named : c.id # cleans[r].channel}
        /\ CleanupEnds(r, "none")
        /\ UNCHANGED <<cooldown, cleanFrame>>

\* defer or channel.delete() raises (discord.Forbidden without the Manage
\* Channels permission, NotFound when the channel is already gone, any HTTP
\* error): the except clause reports it, the channel list is as it was.
CleanupRaises ==
    \E r \in Reqs, fault \in Faults :
        /\ \/ cleans[r].pc = "deferred"
           \/ cleans[r].pc = "started" /\ IsCleanable(cleans[r].name)
        /\ CleanupEnds(r, fault)
        /\ UNCHANGED <<named, cooldown, cleanFrame>>

\* The text channels of the guild: two private channels of member 1, a
\* second help channel of the same name (C14), a public channel called
\* "help", one whose name only begins with it, and one with a short name.
CleanupChannels ==
    {[id |-> 1, name |-> ChannelName(1, Introduction)],
     [id |-> 2, name |-> ChannelName(1, Help)],
     [id |-> 3, name |-> ChannelName(1, Help)],
     [id |-> 4, name |-> Help],
     [id |-> 5, name |-> Help \o <<"-", "a">>],
     [id |-> 6, name |-> <<"a">>]}

InitCleanup ==
    /\ db = <<>>
    /\ provs = [r \in 1..MaxTasks |-> IdleProv]
    /\ created = <<>>
    /\ seeds = <<>>
    /\ cooldown = {}
    /\ readies = [h \in 1..MaxTasks |-> "idle"]
    /\ loopTasks = <<>>
    /\ active = 0
    /\ views = <<>>
    /\ presses = [p \in 1..MaxTasks |-> IdlePress]
    /\ named = CleanupChannels
    /\ cleans = [r \in 1..MaxTasks |-> IdleClean]
    /\ tasks = [t \in Tasks |-> IdleTask]
    /\ modal = NoModal
    /\ channels = InitChannels
    /\ feed = [u \in Uris |-> NoTime]
    /\ pc = "idle"
    /\ configs = <<>>
    /\ expired = FALSE
    /\ posts = <<>>
    /\ ci = 1
    /\ pi = 1
    /\ last_post_dt = 0
    /\ sentCount = [g \in Guilds |-> [u \in Uris |-> 0]]
    /\ passSent = <<>>
    /\ passFailed = {}
    /\ passGuild = 0
    /\ passStart = NoTime
    /\ cycle = 0
    /\ lastEnd = "none"
    /\ sendFail = FALSE
    /\ commitFail = FALSE
    /\ prevClean = FALSE
    /\ repeat = FALSE
    /\ auth = NoAuth
    /\ limit = 0

NextCleanup ==
    \/ CleanupInvoke
    \/ CleanupOnCooldown
    \/ CleanupCooldownExpires
    \/ CleanupRejects
    \/ CleanupDefers
    \/ CleanupDeletes
    \/ CleanupRaises

SpecCleanup == InitCleanup /\ [][NextCleanup]_vars

\* ------------------------------------------------------- write footprints
\* A setting name the assignment chain of update_guild_config does not know.
NoSuchSetting == "NO_SUCH_SETTING"

\* update_guild_config called directly, with a name the chain knows or with
\* one it does not, one call at a time: the select has run.
UpdateGuildConfigDirect ==
    \E g \in Guilds :
        \E sv \in SettingValues(g) \cup {<<NoSuchSetting, 1>>} :
            /\ \A t \in Tasks : tasks[t].pc = "idle"
            /\ tasks' = [tasks EXCEPT ![1] =
                            [pc |-> "selected", op |-> "update_guild_config",
                             guild_id |-> g, setting |-> sv[1],
                             value |-> sv[2], config |-> SelectConfig(g)]]
            /\ UNCHANGED <<db, storeFrame>>

\* The store of InitRace, or that store before guild 2 had a row; one more
\* cycle is to run, or none.
InitFootprint ==
    /\ db \in {RaceTable, SubSeq(RaceTable, 1, 1)}
    /\ AsideInit
    /\ channels = InitChannels
    /\ feed = RaceFeed
    /\ pc = "idle"
    /\ configs = <<>>
    /\ expired = FALSE
    /\ posts = <<>>
    /\ ci = 1
    /\ pi = 1
    /\ last_post_dt = 0
    /\ sentCount = [g \in Guilds |-> [u \in Uris |-> 0]]
    /\ passSent = <<>>
    /\ passFailed = {}
    /\ passGuild = 0
    /\ passStart = NoTime
    /\ lastEnd = "early"
    /\ sendFail = FALSE
    /\ commitFail = FALSE
    /\ prevClean = FALSE
    /\ cycle \in {MaxCycles - 1, MaxCycles}
    /\ repeat = FALSE
    /\ auth = NoAuth
    /\ limit = 0
    /\ tasks = [t \in Tasks |-> IdleTask]
    /\ modal = NoModal

\* The poll cycle and direct calls of update_guild_config.
NextFootprint ==
    \/ LoginSkipped
    \/ LoginOk
    \/ LoginFailed
    \/ NoEnabledGuilds
    \/ FetchFailed
    \/ Fetch
    \/ CycleDone
    \/ ExpiredInstanceRead
    \/ ChannelNotFound
    \/ BeginPass
    \/ ItemNotNew
    \/ SendOk
    \/ SendFailed
    \/ EndItems
    \/ NoWatermarkUpdate
    \/ CommitOk
    \/ CommitFailed
    \/ UpdateGuildConfigDirect
    \/ InsertCommit
    \/ UpdateCommit
    \/ TaskEnds

SpecFootprint == InitFootprint /\ [][NextFootprint]_vars

\* ------------------------------------------------------------ feed claims
\* The stored watermark of a guild.
Watermark(g) == db[RowOf(g)].last_bluesky_post

\* Creation instant of an item with a well-formed timestamp.
InstantOf(uri) == ParseTime(CreatedAt(uri))

\* A guild's pass has just ended (its commit was attempted or skipped).
PassDone == pc = "guild" /\ passGuild # 0

\* Every item of the fetched page carries a well-formed creation timestamp.
WellFormedPage == \A i \in DOMAIN posts : CreatedAt(posts[i]).kind = "utc"

\* The largest creation instant among a non-empty sequence of sent items.
NewestSent(sent) ==
    CHOOSE t \in {InstantOf(sent[i]) : i \in DOMAIN sent} :
        \A j \in DOMAIN sent : InstantOf(sent[j]) <= t

\* C1: no feed item is sent to the same guild's channel more than once, over
\* any sequence of poll cycles.
C1_NoDuplicateSend ==
    \A g \in Guilds, u \in Uris : sentCount[g][u] <= 1

\* C2: after a guild's delivery pass (its commit having succeeded or not been
\* needed) the stored watermark is the newest creation timestamp among the
\* items actually sent in that pass, and is untouched when none was sent.
C2_WatermarkIsNewestDelivered ==
    (PassDone /\ ~commitFail /\ WellFormedPage) =>
        IF passSent = <<>>
        THEN Watermark(passGuild) = passStart
        ELSE Watermark(passGuild) = UtcTime(NewestSent(passSent))

\* C3: within one pass the items are sent in ascending order of creation
\* timestamp, whatever the fetch order.
C3_AscendingSendOrder ==
    \A i, j \in DOMAIN passSent :
        i < j => InstantOf(passSent[i]) <= InstantOf(passSent[j])

\* C4: a cycle that re-runs the previous, cleanly completed cycle with the
\* same fetched page and no configuration change in between sends nothing
\* and leaves every watermark as the first run left it.
C4_RepeatCycleSendsNothing ==
    (repeat /\ WellFormedPage) =>
        /\ passSent = <<>>
        /\ PassDone => Watermark(passGuild) = passStart

\* C5: after a pass, the guild's watermark is strictly before the creation
\* timestamp of every item whose send failed in that pass, so the next cycle
\* that fetches the item tries it again.
C5_FailedItemStaysAhead ==
    (PassDone /\ WellFormedPage) =>
        \A u \in passFailed :
            /\ ~ParseFails(IF Truthy(Watermark(passGuild))
                           THEN Watermark(passGuild) ELSE EpochTime)
            /\ Watermark(passGuild).t < InstantOf(u)

\* C6: a cycle in which a send raised is not aborted: it goes on to every
\* remaining item of the guild and every remaining enabled guild.
C6_SendFailureDoesNotAbort ==
    [][~(sendFail /\ pc # "idle" /\ pc' = "idle" /\ lastEnd' = "aborted")]_vars

\* The guilds the running cycle read as enabled when it started.
ServedGuilds == {configs[i].row.guild_id : i \in DOMAIN configs}

\* C7: the enabled set is read from the store when a cycle starts, and a
\* guild whose committed bluesky_enabled was 0 at that moment gets no message
\* and keeps its watermark for the whole cycle.
C7_DisabledGuildUntouched ==
    [][/\ (pc = "authenticated" /\ pc' = "guild") =>
             {configs'[i].row.guild_id : i \in DOMAIN configs'}
                 = {g \in Guilds : db[RowOf(g)].bluesky_enabled = 1}
       /\ pc # "idle" =>
             \A g \in Guilds \ ServedGuilds :
                 /\ db'[RowOf(g)].last_bluesky_post = Watermark(g)
                 /\ sentCount'[g] = sentCount[g]]_vars

\* C7 witness: in the second cycle a guild that was served by the first one
\* is disabled and not in the cycle's snapshot, the page holds an item newer
\* than its watermark, and another guild has been sent an item.
C7_Witness ==
    /\ cycle = 2
    /\ pc = "item"
    /\ passSent # <<>>
    /\ \E g \in Guilds \ ServedGuilds :
          /\ db[RowOf(g)].bluesky_enabled = 0
          /\ \E u \in Uris : sentCount[g][u] = 1
          /\ Watermark(g).kind = "utc"
          /\ \E i \in DOMAIN posts :
                /\ CreatedAt(posts[i]).kind = "utc"
                /\ InstantOf(posts[i]) > Watermark(g).t

C9_GetOrCreateNeverFails ==
    \A t \in Tasks :
        ~(tasks[t].pc = "raised" /\ tasks[t].op = "get_guild_config")

\* --------------------------------------------------------- settings claims
\* The spellings that name a member: the member's name in any letter case,
\* alone or followed by '#' and the member's discriminator.
NamesMember(g, str) ==
    \E m \in Members(g) :
        \/ Lower(str) = Lower(m.name)
        \/ /\ Len(str) = Len(m.name) + 1 + Len(m.discriminator)
           /\ Lower(SubSeq(str, 1, Len(m.name))) = Lower(m.name)
           /\ str[Len(m.name) + 1] = "#"
           /\ SubSeq(str, Len(m.name) + 2, Len(str)) = m.discriminator

\* The identifiers of a submitted list: its comma-separated pieces, trimmed.
Identifiers(text) == {Strip(Split(Strip(text))[i]) : i \in DOMAIN Split(Strip(text))}

\* C10: when at least one identifier of a submitted admin list names no
\* current member of the guild, on_submit leaves the whole table as it was:
\* no valid identifier of the submission is stored.
C10_AdminValidationAllOrNothing ==
    [][(/\ modal.pc = "open"
        /\ modal'.pc = "submitted"
        /\ modal.setting = "ADMIN_USERNAMES"
        /\ \E id \in Identifiers(modal'.text) : ~NamesMember(modal.guild_id, id))
          => db' = db]_vars

\* C10 witness: a submitted list with a valid and an invalid identifier was
\* rejected, and the guild had admins stored before.
C10_Witness ==
    /\ modal.pc = "submitted"
    /\ modal.setting = "ADMIN_USERNAMES"
    /\ modal.response = "invalid_usernames"
    /\ \E id \in Identifiers(modal.text) : NamesMember(modal.guild_id, id)
    /\ \E id \in Identifiers(modal.text) : ~NamesMember(modal.guild_id, id)
    /\ db[RowOf(modal.guild_id)].admin_usernames = <<"b">>

\* The channel kind a setting's id has to resolve to.
KindFor(setting) ==
    IF setting = "PRIVATE_CHANNELS_CATEGORY" THEN "category" ELSE "text"

\* The submitted text, trimmed, is a decimal integer that is the id of a
\* channel of the asked kind in the guild.
Resolves(g, text, kind) ==
    /\ IsInt(Strip(text))
    /\ \E c \in channels :
          c.id = IntOf(Strip(text)) /\ c.guild = g /\ c.kind = kind

\* C11: when the value submitted for the category or the feed channel is not
\* an integer, or is not the id of a category (resp. a text channel) of the
\* guild, on_submit does not reach update_guild_config (its response is not
\* the confirmation) and the table is the same before and after.
C11_ValidateThenWrite ==
    [][(/\ modal.pc = "open"
        /\ modal'.pc = "submitted"
        /\ modal.setting \in {"PRIVATE_CHANNELS_CATEGORY", "BLUESKY_CHANNEL"}
        /\ ~Resolves(modal.guild_id, modal'.text, KindFor(modal.setting)))
          => (db' = db /\ modal'.response # "updated")]_vars

\* C11 witness: the id of an existing category of the guild was submitted as
\* the feed channel and rejected.
C11_Witness ==
    /\ modal.pc = "submitted"
    /\ modal.setting = "BLUESKY_CHANNEL"
    /\ modal.response = "invalid_channel"
    /\ IsInt(Strip(modal.text))
    /\ IntOf(Strip(modal.text)) = CategoryOf(modal.guild_id)
    /\ db[RowOf(modal.guild_id)].bluesky_channel_id = NoId

\* ------------------------------------------------------ provisioning claims
\* The guild's category id is unset: no row, or the column is NULL.
CategoryUnset(g) ==
    \/ RowsOf(g) = {}
    \/ db[RowOf(g)].private_channels_category = NoId

\* The responses that tell the caller a setting is missing and that an admin
\* has to set it with /settings.
ConfigurationMissing == {"category_not_set", "no_admins"}

\* C12: a signup / help request in a guild whose private-channel category is
\* unset ends with a configuration-missing error reported to the caller, and
\* it has made no create call and no send call.
C12_UnsetCategoryIsReported ==
    \A r \in Reqs :
        (provs[r].pc = "done" /\ CategoryUnset(provs[r].guild_id)) =>
            /\ provs[r].response \in ConfigurationMissing
            /\ provs[r].creates = 0
            /\ provs[r].sends = 0

\* The three visibility entries of a provisioned channel of user u.
ThreeTier(u) ==
    {[target |-> "default_role", read_messages |-> "deny",
      send_messages |-> "unset"],
     [target |-> <<"user", u>>, read_messages |-> "allow",
      send_messages |-> "allow"],
     [target |-> "me", read_messages |-> "allow", send_messages |-> "allow"]}

\* C13: one invocation makes at most one create call and at most one seed
\* send, the send only after the create, whatever the calls' outcomes; an
\* invocation that ends with the confirmation has made exactly one channel,
\* named '{lowercased display name}-{purpose}' with the three visibility
\* entries, and exactly one seed message is in it; the platform holds no
\* channel and no seed beyond those.
C13_OneChannelOneSeed ==
    /\ \A r \in Reqs :
          /\ provs[r].creates <= 1
          /\ provs[r].sends <= provs[r].creates
          /\ provs[r].response = "created" =>
                /\ provs[r].creates = 1
                /\ provs[r].sends = 1
                /\ provs[r].channel \in DOMAIN created
                /\ created[provs[r].channel].name =
                       Lower(DisplayName(provs[r].user)) \o <<"-">>
                           \o provs[r].suffix
                /\ created[provs[r].channel].overwrites =
                       ThreeTier(provs[r].user)
                /\ Cardinality({j \in DOMAIN seeds :
                                   seeds[j].channel = provs[r].channel}) = 1
    /\ Len(created) = Cardinality({r \in Reqs : provs[r].channel # 0})
    /\ Len(seeds) = Cardinality({r \in Reqs : provs[r].response = "created"})

\* C13 witness: one invocation of a user whose display name has a capital
\* ended with the confirmation, and another one made its channel and then
\* had its seed send raise.
C13_Witness ==
    \E r, q \in Reqs :
        /\ provs[r].response = "created"
        /\ provs[r].user = 1
        /\ provs[q].pc = "done"
        /\ provs[q].response \in Faults
        /\ provs[q].creates = 1
        /\ provs[q].sends = 1
        /\ Len(created) = 2
        /\ Len(seeds) = 1

\* C14: create_text_channel is not conditioned on the channels that exist:
\* a create call that returns adds one channel and leaves the others, also
\* when a channel of the same guild, owner and name is there already.
C14_NoUniquenessOnCreate ==
    [][\A r \in Reqs :
          (provs[r].pc = "create" /\ provs'[r].pc = "send") =>
              /\ Len(created') = Len(created) + 1
              /\ SubSeq(created', 1, Len(created)) = created]_vars

\* C14 witness: two invocations of the same command by the same user in the
\* same guild both ended with the confirmation, and two channels of the same
\* name exist.
C14_Witness ==
    \E r, q \in Reqs :
        /\ r # q
        /\ provs[r].response = "created"
        /\ provs[q].response = "created"
        /\ provs[r].guild_id = provs[q].guild_id
        /\ provs[r].user = provs[q].user
        /\ provs[r].suffix = provs[q].suffix
        /\ provs[r].channel # provs[q].channel
        /\ created[provs[r].channel].name = created[provs[q].channel].name
        /\ created[provs[r].channel].guild = created[provs[q].channel].guild

\* The members a configured recipient names: the name in any letter case,
\* alone or followed by '#' and the member's discriminator.
NamedBy(g, str) ==
    {m \in Members(g) :
        \/ Lower(str) = Lower(m.name)
        \/ /\ Len(str) = Len(m.name) + 1 + Len(m.discriminator)
           /\ Lower(SubSeq(str, 1, Len(m.name))) = Lower(m.name)
           /\ str[Len(m.name) + 1] = "#"
           /\ SubSeq(str, Len(m.name) + 2, Len(str)) = m.discriminator}

\* The ids of the members the recipients of a list name, in list order.
RECURSIVE Resolving(_, _)
Resolving(g, ids) ==
    IF ids = <<>> THEN <<>>
    ELSE (IF NamedBy(g, Head(ids)) = {} THEN <<>>
          ELSE <<(CHOOSE m \in NamedBy(g, Head(ids)) : TRUE).id>>)
         \o Resolving(g, Tail(ids))

\* C18: with recipients configured and the category set and present, a
\* request reaches its create call whichever recipients fail to resolve, and
\* the seed of a confirmed request mentions exactly those that resolve.
C18_UnresolvedRecipientsDropped ==
    \A r \in Reqs :
        (/\ provs[r].pc = "done"
         /\ provs[r].config # NoConfig
         /\ provs[r].config.row.admin_usernames # <<>>
         /\ ~CategoryUnset(provs[r].guild_id)
         /\ GuildHasChannel(provs[r].guild_id,
                            db[RowOf(provs[r].guild_id)].private_channels_category))
          => /\ provs[r].creates = 1
             /\ provs[r].response = "created" =>
                   \E j \in DOMAIN seeds :
                       /\ seeds[j].channel = provs[r].channel
                       /\ seeds[j].content.mentions =
                              Resolving(provs[r].guild_id,
                                  Usernames(provs[r].config.row.admin_usernames))

\* ------------------------------------------------------------ timer claims
\* C15: at most one check_bluesky_feed call is in progress in every reachable
\* state, at most one loop task is alive, and a timer fire or a READY event
\* that comes while a cycle runs starts no cycle.
C15_AtMostOneCycle ==
    /\ [](/\ active <= 1
          /\ Cardinality({i \in DOMAIN loopTasks :
                             loopTasks[i].pc # "done"}) <= 1)
    /\ [][active = 1 => active' <= 1]_vars

\* C15 witness: a cycle is running, the timer has fired during it, and an
\* on_ready handler of a reconnect has passed its is_running test meanwhile
\* without starting a task, after an earlier loop task had died and been
\* replaced.
C15_Witness ==
    /\ active = 1
    /\ Len(loopTasks) = 2
    /\ loopTasks[1].pc = "done"
    /\ loopTasks[2].pc = "running"
    /\ loopTasks[2].late
    /\ \E h \in Readies : readies[h] = "presence"


\* ----------------------------------------------------- login claims (C16)
\* One of the two credentials is missing from the environment.
Absent(a) == a.username = "" \/ a.password = ""

\* The step is the start of a cycle: the login block of check_bluesky_feed.
CycleStarts == pc = "idle" /\ cycle' = cycle + 1

\* The step issues the requests of the fetch (they return or they raise).
Fetches == pc = "authenticated" /\ (pc' = "guild" \/ lastEnd' = "aborted")

\* A cycle whose login failed leaves nothing behind: nothing was requested,
\* sent or stored, and the bot is where the next timer fire finds it.
FailedLoginIsClean ==
    (~Absent(auth') /\ auth'.login = "failed") =>
        /\ pc' = "idle"
        /\ lastEnd' = "login_failed"
        /\ limit' = 0
        /\ posts' = <<>>
        /\ configs' = <<>>
        /\ sentCount' = sentCount
        /\ db' = db
        /\ ci' = 1
        /\ pi' = 1

FetchReturns == pc = "authenticated" /\ pc' = "guild"

\* C19: the fetch asks for the minimal page exactly when no enabled guild
\* has a stored watermark, and for the larger page as soon as one enabled
\* guild has one, whatever the order of the enabled guilds.
C19_PageSizeByAnyWatermark ==
    [][FetchReturns =>
          /\ limit' \in {PageSmall, PageLarge}
          /\ (limit' = PageSmall) <=>
                 \A i \in DOMAIN configs' :
                     ~Truthy(configs'[i].row.last_bluesky_post)]_vars


\* -------------------------------------------------- watermark claims (C20)
\* C20: a guild's stored watermark never moves to an earlier instant than
\* the one it held, whatever the cycles fetch and in whatever order.
C20_WatermarkMonotonic ==
    [][\A g \in Guilds :
          (/\ Watermark(g).kind = "utc"
           /\ db'[RowOf(g)].last_bluesky_post.kind = "utc")
             => ParseTime(db'[RowOf(g)].last_bluesky_post)
                   >= ParseTime(Watermark(g))]_vars


\* ----------------------------------------------------- toggle claims (C17)
\* C17: the toggle is a flip of the stored value: right after a button
\* callback commits, the guild's stored bluesky_enabled is the negation of
\* the value that was stored when the callback began, also for a second
\* press of the same button and for two views opened before either press.
C17_ToggleFlipsStoredValue ==
    [][\A p \in Tasks :
          (presses[p].pc = "selected" /\ presses'[p].pc = "committed") =>
              db'[RowOf(views[presses[p].view].guild_id)].bluesky_enabled
                  = 1 - presses[p].before]_vars

\* ------------------------------------------------ isolation claims (C21)
\* The pass of the guild the loop is at cannot start: its stored watermark
\* does not parse.
WatermarkFault ==
    /\ ci <= Len(configs)
    /\ ~expired
    /\ ChannelFound(Config.row.bluesky_channel_id)
    /\ ParseFails(LastPostTime(Config))

\* C21: a fault of one guild's pass (its watermark does not parse, its
\* channel is not found, its watermark commit fails) does not keep any other
\* enabled guild from being processed: a cycle in which such a fault
\* happened ends only when the loop has been through every other guild it
\* read.
\* The positions of the guilds the loop has not been through, the faulty
\* one left out.
NotProcessed ==
    IF WatermarkFault THEN (ci + 1)..Len(configs) ELSE ci..Len(configs)

C21_TenantFaultIsolated ==
    [][(/\ pc = "guild"
        /\ pc' = "idle"
        /\ commitFail \/ WatermarkFault) => NotProcessed = {}]_vars

\* ------------------------------------------- unresolved channel claims (C22)
\* No channel the bot can see has this id.
Unresolved(id) == \A c \in channels : c.id # id

\* The guilds of the running cycle whose feed channel is not resolvable.
UnresolvedGuilds ==
    {configs[i].row.guild_id :
        i \in {j \in DOMAIN configs : Unresolved(configs[j].row.bluesky_channel_id)}}

PassWatermark == IF Truthy(passStart) THEN passStart ELSE EpochTime

\* The step handles the item the loop is at and attempts to send it.
SendAttempted == passSent' # passSent \/ passFailed' # passFailed

\* The item has a well-formed creation time strictly after the watermark.
AfterWatermark(uri) ==
    /\ CreatedAt(uri).kind = "utc"
    /\ PassWatermark.kind = "utc"
    /\ CreatedAt(uri).t > PassWatermark.t

\* C23: in a guild's pass a send is attempted for a fetched item exactly when
\* its creation time is strictly after the watermark read at the start of
\* the pass (the stored one, or the epoch when the guild has none); an item
\* at or before the watermark, or with no timestamp, is not sent.
C23_SentIffAfterWatermark ==
    [][pc = "item" =>
          /\ passStart = Watermark(passGuild)
          /\ pi' = pi + 1 => (SendAttempted <=> AfterWatermark(posts[pi]))
          /\ pi' = pi => ~SendAttempted]_vars

\* C23 witness: a pass over a page of two items is through both: the one
\* newer than the watermark was sent, the one whose creation time equals the
\* watermark was not.
C23_Witness ==
    /\ pc = "item"
    /\ pi = 3
    /\ Len(passSent) = 1
    /\ passFailed = {}
    /\ \E i \in DOMAIN posts :
          /\ CreatedAt(posts[i]) = passStart
          /\ passStart.kind = "utc"
          /\ sentCount[passGuild][posts[i]] = 0

\* -------------------------------------------------------- race claims (C24)
Settings ==
    {"PRIVATE_CHANNELS_CATEGORY", "ADMIN_USERNAMES", "BLUESKY_ENABLED",
     "BLUESKY_CHANNEL"}

\* The column of a row that a setting names.
Field(row, setting) ==
    CASE setting = "PRIVATE_CHANNELS_CATEGORY" -> row.private_channels_category
      [] setting = "ADMIN_USERNAMES" -> row.admin_usernames
      [] setting = "BLUESKY_ENABLED" -> row.bluesky_enabled
      [] setting = "BLUESKY_CHANNEL" -> row.bluesky_channel_id

\* The step is the commit of the update_guild_config call in slot t, on a row
\* its select found.
UpdateCommits(t) ==
    /\ tasks[t].pc = "selected"
    /\ tasks[t].op = "update_guild_config"
    /\ tasks[t].config # NoConfig
    /\ tasks'[t].pc = "returned"

\* C24: a settings update and a poll cycle racing on a guild lose neither
\* write, and neither do two update_guild_config calls on different fields
\* of a guild's row: no step of the cycle changes a settings column, even
\* when it commits a row it read before an update; the commit of a call
\* leaves the watermark and the other columns as the store holds them, even
\* when they were written after the call's select, and puts its value into
\* its own column unless that column was written since its select.
C24_NoLostWrite ==
    [][/\ tasks' = tasks =>
             /\ DOMAIN db' = DOMAIN db
             /\ \A i \in DOMAIN db : \A s \in Settings :
                    Field(db'[i], s) = Field(db[i], s)
       /\ \A t \in Tasks : UpdateCommits(t) =>
             LET id == tasks[t].config.id
                 setting == tasks[t].setting
             IN  /\ DOMAIN db' = DOMAIN db
                 /\ \A i \in DOMAIN db \ {id} : db'[i] = db[i]
                 /\ db'[id].last_bluesky_post = db[id].last_bluesky_post
                 /\ \A s \in Settings \ {setting} :
                        Field(db'[id], s) = Field(db[id], s)
                 /\ Field(db[id], setting) = Field(tasks[t].config.row, setting)
                       => Field(db'[id], setting) = tasks[t].value]_vars

\* C24 witness: an update_guild_config call has committed a new value on a
\* row whose watermark the cycle wrote after the call's select; the store
\* holds both the call's value and the cycle's watermark.
C24_Witness ==
    \E t \in Tasks :
        /\ tasks[t].pc = "returned"
        /\ tasks[t].op = "update_guild_config"
        /\ tasks[t].config # NoConfig
        /\ Field(tasks[t].config.row, tasks[t].setting) # tasks[t].value
        /\ Field(db[tasks[t].config.id], tasks[t].setting) = tasks[t].value
        /\ db[tasks[t].config.id].last_bluesky_post.kind = "utc"
        /\ tasks[t].config.row.last_bluesky_post
              # db[tasks[t].config.id].last_bluesky_post

\* ----------------------------------------------------- cleanup claims (C25)
\* The name is some text followed by 'introduction' or by 'help'.
HasCleanupSuffix(name) ==
    \E k \in 0..Len(name) :
        SubSeq(name, k + 1, Len(name)) \in {Introduction, Help}

\* The step ends the command invoked in slot r.
CleanupOver(r) == cleans[r].pc # "done" /\ cleans'[r].pc = "done"

\* The step deletes the channel the command of slot r was invoked in.
DeletesOwn(r) ==
    /\ \E c \in named : c.id = cleans'[r].channel
    /\ \A c \in named' : c.id # cleans'[r].channel

\* No step makes a channel, and a step that deletes one is the end of a
\* command invoked in that very channel, whose name has the suffix.
DeletesOnlyOwn ==
    /\ named' \subseteq named
    /\ \A c \in named \ named' :
          /\ HasCleanupSuffix(c.name)
          /\ \E r \in Reqs : CleanupOver(r) /\ cleans[r].channel = c.id

\* C25 as stated: the command deletes the channel it was invoked in if and
\* only if the channel's name ends with 'introduction' or 'help', otherwise
\* it deletes nothing, and it never deletes another channel.
C25_DeletesIffSuffix ==
    [][/\ DeletesOnlyOwn
       /\ \A r \in Reqs : CleanupOver(r) =>
             (DeletesOwn(r) <=> HasCleanupSuffix(cleans'[r].name))]_vars

\* C25, amended: the command deletes the channel it was invoked in only if
\* the channel's name ends with 'introduction' or 'help', and with such a
\* name it deletes it unless the invocation is on cooldown or the platform
\* refuses or fails the request, which it reports; otherwise it deletes
\* nothing, and it never deletes another channel.
C25_DeletesBySuffixOnly ==
    [][/\ DeletesOnlyOwn
       /\ \A r \in Reqs : CleanupOver(r) =>
             /\ DeletesOwn(r) => HasCleanupSuffix(cleans'[r].name)
             /\ HasCleanupSuffix(cleans'[r].name) =>
                   \/ DeletesOwn(r)
                   \/ cleans'[r].response \in Faults \cup {"cooldown"}
             /\ ~HasCleanupSuffix(cleans'[r].name) =>
                   /\ named' = named
                   /\ cleans'[r].response \in {"wrong_channel", "cooldown"}]_vars

\* C25 witness: a command invoked in one of two help channels of the same
\* name has deleted it; the other one, the public "help" channel and the
\* channels without the suffix are still there.
C25_Witness ==
    \E r \in Reqs :
        /\ cleans[r].pc = "done"
        /\ cleans[r].response = "none"
        /\ cleans[r].channel = 2
        /\ named = {c \in CleanupChannels : c.id # 2}

\* --------------------------------------------------- footprint claims (C26)
\* What the store holds for a guild: its row, or the defaults get_guild_config
\* would create for it.
Stored(table, g) ==
    IF \E i \in DOMAIN table : table[i].guild_id = g
    THEN table[CHOOSE i \in DOMAIN table : table[i].guild_id = g]
    ELSE GuildConfig(g)

\* The guilds for which a step changes what the store holds.
Written == {g \in Guilds : Stored(db', g) # Stored(db, g)}

\* The step is the commit of the update_guild_config call in slot t.
CallCommits(t) ==
    /\ tasks[t].pc = "selected"
    /\ tasks[t].op = "update_guild_config"
    /\ tasks'[t].pc = "returned"

\* C26: the writes are disjoint and per guild.  A step of the poll cycle
\* changes nothing in the store but the watermark of the guild whose pass
\* has just run, a guild the cycle read as enabled and whose channel it
\* resolved.  The commit of update_guild_config(guild, setting, value)
\* changes nothing but the column setting names, for that guild; with a
\* setting name it does not know it changes no column, and the call
\* returns.
C26_DisjointFootprints ==
    [][/\ \A i \in DOMAIN db : i \in DOMAIN db' /\ db'[i].guild_id = db[i].guild_id
       /\ tasks' = tasks =>
             /\ DOMAIN db' = DOMAIN db
             /\ \A g \in Written :
                   /\ pc = "commit"
                   /\ g = passGuild
                   /\ configs[ci].row.guild_id = g
                   /\ configs[ci].row.bluesky_enabled = 1
                   /\ \E c \in channels : c.id = configs[ci].row.bluesky_channel_id
                   /\ \A s \in Settings :
                         Field(Stored(db', g), s) = Field(Stored(db, g), s)
       /\ \A t \in Tasks :
             /\ CallCommits(t) =>
                   /\ Written \subseteq {tasks[t].guild_id}
                   /\ \A g \in Written :
                         /\ Stored(db', g).last_bluesky_post
                               = Stored(db, g).last_bluesky_post
                         /\ \A s \in Settings \ {tasks[t].setting} :
                               Field(Stored(db', g), s) = Field(Stored(db, g), s)
                   /\ tasks[t].setting \notin Settings => Written = {}
             /\ /\ tasks[t].pc = "selected"
                /\ tasks[t].setting \notin Settings
                /\ tasks'[t] # tasks[t]
                => CallCommits(t)]_vars

\* C26 witness: update_guild_config has returned from a call with a setting
\* name it does not know, for a guild that had no row: the row it inserted
\* holds the defaults; the cycle has advanced the watermark of guild 1, whose
\* settings are as they were when the bot started.
C26_Witness ==
    \E t \in Tasks :
        /\ tasks[t].pc = "returned"
        /\ tasks[t].setting \notin Settings
        /\ tasks[t].guild_id = 2
        /\ Len(db) = 2
        /\ db[2] = GuildConfig(2)
        /\ db[2] # RaceTable[2]
        /\ db[1] = [RaceTable[1] EXCEPT !.last_bluesky_post = UtcTime(2)]

====
